---- MODULE Spec2Model ----
(***************************************************************************)
(* State-machine model of backend/server.py (LinkedIn Ghostwriter Agent):  *)
(* the password-reset flow, the in-memory sliding-window rate limiter, the *)
(* persistent demo counter and post generation with its usage cap.         *)
(*                                                                         *)
(* Every request handler is a coroutine.  One action of the model is the   *)
(* execution of one awaited store (or collaborator) call together with the *)
(* synchronous code that follows it up to the next await; the synchronous  *)
(* prefix of a handler, up to its first await, is the handler's Begin      *)
(* action.  Handlers run in the slots Procs and interleave freely.         *)
(***************************************************************************)
EXTENDS Integers, Sequences, FiniteSets, TLC

VARIABLES
    now,               \* wall clock, in seconds
    env,               \* os.environ, fixed at start-up
    users,             \* db.users            (documents in natural order)
    password_resets,   \* db.password_resets
    voice_profiles,    \* db.voice_profiles
    draft_posts,       \* db.draft_posts: every query selects by the unique id or
                       \* sorts, so the collection is the set of its documents
    demo_rate_limits,  \* db.demo_rate_limits
    rate_limit_store,  \* the module-level dict of check_rate_limit
    outbox,            \* reset links handed to send_reset_email
    pc,                \* per slot: where its handler is suspended
    req,               \* per slot: the request and the handler's locals
    resp,              \* per slot: the response of its last handler
    nreq,              \* number of requests started so far
    budget,            \* number of requests the run may start
    hist               \* history: what the handlers did (not program state)

vars == <<now, env, users, password_resets, voice_profiles, draft_posts,
          demo_rate_limits, rate_limit_store, outbox, pc, req, resp, nreq, budget,
          hist>>

\* What no handler changes.
fixed == <<env, budget>>

----------------------------------------------------------------------------
(* Bounds of the model *)

NumProcs == 2
MaxRequests == 2
MaxDrift == 1

Procs == 1..NumProcs

----------------------------------------------------------------------------
(* Program constants *)

FREE_POST_LIMIT == 10
RATE_LIMIT_WINDOW == 300
RATE_LIMIT_MAX_REQUESTS == 3
RESET_EXPIRY_MINUTES == 30
MIN_PASSWORD_LENGTH == 6
DEMO_VOICE_LIMIT_PER_DAY == 2
DEMO_VOICE_LIMIT_WINDOW == 86400
MAX_SAVED_POSTS == 5

SECONDS_PER_MINUTE == 60

----------------------------------------------------------------------------
(* Strings the code inspects character by character are tuples of          *)
(* one-character strings; str.lower() maps each character.                 *)

LowerChar(c) ==
    CASE c = "A" -> "a" [] c = "B" -> "b" [] c = "C" -> "c" [] c = "D" -> "d"
      [] c = "E" -> "e" [] c = "F" -> "f" [] c = "G" -> "g" [] c = "H" -> "h"
      [] c = "I" -> "i" [] c = "J" -> "j" [] c = "K" -> "k" [] c = "L" -> "l"
      [] c = "M" -> "m" [] c = "N" -> "n" [] c = "O" -> "o" [] c = "P" -> "p"
      [] c = "Q" -> "q" [] c = "R" -> "r" [] c = "S" -> "s" [] c = "T" -> "t"
      [] c = "U" -> "u" [] c = "V" -> "v" [] c = "W" -> "w" [] c = "X" -> "x"
      [] c = "Y" -> "y" [] c = "Z" -> "z" [] OTHER -> c

Lower(s) == [i \in DOMAIN s |-> LowerChar(s[i])]

ADMIN_EMAILS ==
    { <<"e","w","e","i","s","e","r","6","2","2","@","g","m","a","i","l",".","c","o","m">> }

is_admin_user_CaseSensitive(email) == email \in ADMIN_EMAILS

is_admin_user(email) == Lower(email) \in { Lower(e) : e \in ADMIN_EMAILS }

\* Addresses used by the requests of the model.
EmailFree == <<"a","@","x",".","c","o","m">>
EmailUnknown == <<"n","o","@","x",".","c","o","m">>
EmailAdmin ==
    <<"E","W","e","i","s","e","r","6","2","2","@","g","m","a","i","l",".","c","o","m">>

----------------------------------------------------------------------------
(* The document store: a collection is the sequence of its documents in    *)
(* natural (insertion) order.  find_one returns the first match,           *)
(* update_one changes the first match, delete_many removes every match.    *)

Matches(doc, query) ==
    \A k \in DOMAIN query : k \in DOMAIN doc /\ doc[k] = query[k]

Matching(coll, query) == { i \in DOMAIN coll : Matches(coll[i], query) }

FirstMatch(coll, query) ==
    IF Matching(coll, query) = {} THEN 0
    ELSE CHOOSE i \in Matching(coll, query) : \A j \in Matching(coll, query) : i <= j

insert_one(coll, doc) == Append(coll, doc)

delete_many(coll, query) == SelectSeq(coll, LAMBDA d : ~Matches(d, query))

NoFields == [k \in {} |-> 0]

\* The document after {"$set": set, "$inc": inc}.
Updated(doc, set, inc) ==
    [k \in DOMAIN doc |->
        IF k \in DOMAIN set THEN set[k]
        ELSE IF k \in DOMAIN inc THEN doc[k] + inc[k]
        ELSE doc[k]]

update_one(coll, query, set, inc) ==
    IF FirstMatch(coll, query) = 0 THEN coll
    ELSE [coll EXCEPT ![FirstMatch(coll, query)] = Updated(@, set, inc)]

----------------------------------------------------------------------------
(* Auth helpers *)

\* bcrypt: the hash carries its salt; checkpw re-hashes with that salt.
hash_password(password, salt) == [salt |-> salt, digest |-> <<salt, password>>]

verify_password_AnyPassword(password, hashed) == hashed.salt = hashed.digest[1]

verify_password(password, hashed) == hashed.digest = <<hashed.salt, password>>

\* sha256 of the secret: a one-way image, never the secret itself.
hash_reset_token(token) == [sha256 |-> token]

\* secrets.token_urlsafe(32): a secret nobody has seen before.
generate_reset_token(serial) ==
    [token |-> [secret |-> serial], token_hash |-> hash_reset_token([secret |-> serial])]

\* A secret that was never issued (a guess).
BogusToken == [secret |-> 0]

----------------------------------------------------------------------------
(* Environment-supplied configuration.  A URL is the tuple of its words,   *)
(* `'preview' in frontend_url` is the search for a word in it.             *)

DefaultFrontendUrl ==
    <<"https://", "voice-writer-5", ".", "preview", ".", "emergentagent", ".", "com">>
ProductionUrl == <<"https://", "app", ".", "ghostwriter", ".", "io">>
Unset == <<>>

Contains(url, word) == \E i \in DOMAIN url : url[i] = word

frontend_url(e) == IF e.FRONTEND_URL = Unset THEN DefaultFrontendUrl ELSE e.FRONTEND_URL

is_preview_mode(e) ==
    \/ Contains(frontend_url(e), "preview")
    \/ Contains(frontend_url(e), "localhost")
    \/ Lower(e.DEV_MODE) = <<"t","r","u","e">>

Environments ==
    { [FRONTEND_URL |-> Unset, DEV_MODE |-> Unset, EMERGENT_LLM_KEY |-> TRUE],
      [FRONTEND_URL |-> ProductionUrl, DEV_MODE |-> Unset, EMERGENT_LLM_KEY |-> TRUE] }

----------------------------------------------------------------------------
(* Sliding-window rate limiter (in process, synchronous) *)

\* defaultdict(list): a key never touched reads as the empty list.
StoreGet(store, identifier) ==
    IF identifier \in DOMAIN store THEN store[identifier] ELSE <<>>

StorePut(store, identifier, entries) ==
    [k \in DOMAIN store \cup {identifier} |->
        IF k = identifier THEN entries ELSE store[k]]

\* A clean-up that keeps an entry one second too long.
InWindow_Inclusive(t, at) == at - t <= RATE_LIMIT_WINDOW

\* An entry that the clean-up of line 130 keeps.
InWindow(t, at) == at - t < RATE_LIMIT_WINDOW

CleanOldEntries(store, identifier, at) ==
    SelectSeq(StoreGet(store, identifier), LAMBDA t : InWindow(t, at))

LimitReached(entries) == Len(entries) >= RATE_LIMIT_MAX_REQUESTS

\* The value check_rate_limit returns ...
check_rate_limit(store, identifier, at) ==
    ~LimitReached(CleanOldEntries(store, identifier, at))

\* A limiter that records the rejected call too.
check_rate_limit_store_AlwaysAppend(store, identifier, at) ==
    StorePut(store, identifier, Append(CleanOldEntries(store, identifier, at), at))

\* ... and the store it leaves behind.
check_rate_limit_store(store, identifier, at) ==
    StorePut(store, identifier,
        IF LimitReached(CleanOldEntries(store, identifier, at))
        THEN CleanOldEntries(store, identifier, at)
        ELSE Append(CleanOldEntries(store, identifier, at), at))

----------------------------------------------------------------------------
(* Request slots *)

Pending == [status |-> 0]
NoRequest == [op |-> "none"]

ErrorResponse(code, detail) == [status |-> code, body |-> [detail |-> detail]]
OkResponse(body) == [status |-> 200, body |-> body]

\* Slot p takes a new request.  Slots are interchangeable: a request takes
\* the lowest idle one.
Accept(p) ==
    /\ pc[p] = "idle"
    /\ \A q \in Procs : q < p => pc[q] # "idle"
    /\ nreq < budget
    /\ nreq' = nreq + 1

\* Slot p suspends at the next await, with locals r.
Suspend(p, at, r) ==
    /\ pc' = [pc EXCEPT ![p] = at]
    /\ req' = [req EXCEPT ![p] = r]
    /\ resp' = [resp EXCEPT ![p] = Pending]

\* Slot p's handler returns (or raises) with the response out, locals r.
Respond(p, out, r) ==
    /\ pc' = [pc EXCEPT ![p] = "idle"]
    /\ req' = [req EXCEPT ![p] = r]
    /\ resp' = [resp EXCEPT ![p] = out]

Done(p) == pc[p] = "idle" /\ resp[p] # Pending /\ req[p] # NoRequest

IPs == {"10.0.0.1"}

----------------------------------------------------------------------------
(* POST /auth/forgot-password *)

GenericMessage ==
    "If an account exists with this email, you will receive a password reset link."

ForgotEmails == {EmailFree, EmailUnknown}

rate_limit_key(ip, email) == <<"forgot", ip, email>>

\* Lines 268-278: the rate-limit check, and the first await is issued.
forgot_password(p, email, ip) ==
    /\ Accept(p)
    /\ rate_limit_store' =
           check_rate_limit_store(rate_limit_store, rate_limit_key(ip, email), now)
    /\ LET allowed == check_rate_limit(rate_limit_store, rate_limit_key(ip, email), now)
           r == [op |-> "forgot_password", serial |-> nreq + 1, email |-> email,
                 ip |-> ip, is_preview_mode |-> is_preview_mode(env),
                 rate_allowed |-> allowed, user_found |-> FALSE]
       IN  /\ IF allowed
              THEN Suspend(p, "fp_find_user", r)
              ELSE Respond(p, OkResponse([message |-> GenericMessage]), r)
           /\ hist' = [hist EXCEPT !.allowed_log =
                  IF allowed
                  THEN StorePut(@, rate_limit_key(ip, email),
                                Append(StoreGet(@, rate_limit_key(ip, email)), now))
                  ELSE @]
    /\ UNCHANGED <<now, fixed, users, password_resets, voice_profiles, draft_posts,
                   demo_rate_limits, outbox>>

\* The reset record of lines 290-297.
ResetDoc(serial, user_id, token_hash, at) ==
    [id |-> <<"reset", serial>>, user_id |-> user_id, token_hash |-> token_hash,
     expires_at |-> at + RESET_EXPIRY_MINUTES * SECONDS_PER_MINUTE,
     used |-> FALSE, created_at |-> at]

\* Lines 281-297 (user found) or 281, 312-323 (no such user).
forgot_password_find_user(p) ==
    /\ pc[p] = "fp_find_user"
    /\ LET i == FirstMatch(users, [email |-> req[p].email])
           g == generate_reset_token(req[p].serial)
       IN  IF i = 0
           THEN Respond(p, OkResponse([message |-> GenericMessage]), req[p])
           ELSE Suspend(p, "fp_delete_many",
                    [user_found |-> TRUE, user_id |-> users[i].id, token |-> g.token,
                     reset_doc |-> ResetDoc(req[p].serial, users[i].id, g.token_hash, now)]
                    @@ req[p])
    /\ UNCHANGED <<now, fixed, users, password_resets, voice_profiles, draft_posts,
                   demo_rate_limits, rate_limit_store, outbox, nreq, hist>>

\* Line 300.
forgot_password_delete_many(p) ==
    /\ pc[p] = "fp_delete_many"
    /\ password_resets' =
           delete_many(password_resets, [user_id |-> req[p].user_id])
    /\ Suspend(p, "fp_insert_one", req[p])
    /\ UNCHANGED <<now, fixed, users, voice_profiles, draft_posts, demo_rate_limits,
                   rate_limit_store, outbox, nreq, hist>>

\* The response of lines 316-323.
ForgotResponse(preview, reset_url) ==
    IF preview
    THEN OkResponse([message |-> GenericMessage, devResetUrl |-> reset_url])
    ELSE OkResponse([message |-> GenericMessage])

\* Lines 303-323.  send_reset_email changes no state of the program: the
\* link it is given is recorded in outbox.
forgot_password_insert_one(p) ==
    /\ pc[p] = "fp_insert_one"
    /\ password_resets' = insert_one(password_resets, req[p].reset_doc)
    /\ outbox' = outbox \cup {[email |-> req[p].email, token |-> req[p].token]}
    /\ Respond(p,
           ForgotResponse(req[p].is_preview_mode,
                          [base |-> frontend_url(env), token |-> req[p].token]),
           req[p])
    /\ UNCHANGED <<now, fixed, users, voice_profiles, draft_posts, demo_rate_limits,
                   rate_limit_store, nreq, hist>>

----------------------------------------------------------------------------
(* POST /auth/reset-password *)

Passwords == {"short", "newpw1"}

InvalidLink == ErrorResponse(400, "Invalid or expired reset link")
ExpiredLink == ErrorResponse(400, "Reset link has expired. Please request a new one.")
ResetDone ==
    OkResponse([message |->
        "Password has been reset successfully. You can now sign in with your new password."])

\* Secrets a caller can present: those mailed out, or a guess.
KnownTokens == { m.token : m \in outbox } \cup {BogusToken}

\* Lines 329-333: validation, and the first await is issued.
reset_password(p, token, new_password) ==
    /\ Accept(p)
    /\ LET r == [op |-> "reset_password", serial |-> nreq + 1, token |-> token,
                 new_password |-> new_password,
                 token_hash |-> hash_reset_token(token),
                 after_success |-> token \in hist.consumed,
                 found |-> FALSE, wrote_password |-> FALSE]
       IN  IF Len(new_password) < MIN_PASSWORD_LENGTH
           THEN Respond(p, ErrorResponse(400, "Password must be at least 6 characters"), r)
           ELSE Suspend(p, "rp_find_one", r)
    /\ UNCHANGED <<now, fixed, users, password_resets, voice_profiles, draft_posts,
                   demo_rate_limits, rate_limit_store, outbox, hist>>

\* A lookup that forgets the `used` filter.
UnusedWithHash_AnyRecord(token_hash) == [token_hash |-> token_hash]

\* The filter of lines 336-339 (and 381-384).
UnusedWithHash(token_hash) == [token_hash |-> token_hash, used |-> FALSE]

\* An expiry test that already rejects at the expiry instant.
IsExpired_AtInstant(at, expires_at) == at >= expires_at

\* Line 346 (and 390).
IsExpired(at, expires_at) == at > expires_at

\* Lines 336-346.
reset_password_find_one(p) ==
    /\ pc[p] = "rp_find_one"
    /\ LET i == FirstMatch(password_resets, UnusedWithHash(req[p].token_hash))
       IN  IF i = 0
           THEN Respond(p, InvalidLink, req[p])
           ELSE Suspend(p,
                    IF IsExpired(now, password_resets[i].expires_at)
                    THEN "rp_mark_expired" ELSE "rp_find_user",
                    [found |-> TRUE, reset_doc |-> password_resets[i], expired |-> IsExpired(now, password_resets[i].expires_at)]
                    @@ req[p])
    /\ UNCHANGED <<now, fixed, users, password_resets, voice_profiles, draft_posts,
                   demo_rate_limits, rate_limit_store, outbox, nreq, hist>>

MarkUsed == [used |-> TRUE]

\* Lines 348-352.
reset_password_mark_expired(p) ==
    /\ pc[p] = "rp_mark_expired"
    /\ password_resets' =
           update_one(password_resets, [id |-> req[p].reset_doc.id], MarkUsed, NoFields)
    /\ Respond(p, ExpiredLink, req[p])
    /\ UNCHANGED <<now, fixed, users, voice_profiles, draft_posts, demo_rate_limits,
                   rate_limit_store, outbox, nreq, hist>>

\* Lines 355-360.
reset_password_find_user(p) ==
    /\ pc[p] = "rp_find_user"
    /\ LET i == FirstMatch(users, [id |-> req[p].reset_doc.user_id])
       IN  IF i = 0
           THEN Respond(p, ErrorResponse(400, "User not found"), req[p])
           ELSE Suspend(p, "rp_update_password",
                    [user_id |-> users[i].id,
                     new_password_hash |->
                         hash_password(req[p].new_password, req[p].serial)]
                    @@ req[p])
    /\ UNCHANGED <<now, fixed, users, password_resets, voice_profiles, draft_posts,
                   demo_rate_limits, rate_limit_store, outbox, nreq, hist>>

\* Lines 361-364.
reset_password_update_password(p) ==
    /\ pc[p] = "rp_update_password"
    /\ users' = update_one(users, [id |-> req[p].user_id],
                           [password |-> req[p].new_password_hash], NoFields)
    /\ Suspend(p, "rp_mark_used", [req[p] EXCEPT !.wrote_password = TRUE])
    /\ hist' = [hist EXCEPT !.password_set =
                   IF FirstMatch(users, [id |-> req[p].user_id]) = 0 THEN @
                   ELSE StorePut(@, req[p].user_id, req[p].new_password)]
    /\ UNCHANGED <<now, fixed, password_resets, voice_profiles, draft_posts,
                   demo_rate_limits, rate_limit_store, outbox, nreq>>

\* Lines 367-374.
reset_password_mark_used(p) ==
    /\ pc[p] = "rp_mark_used"
    /\ password_resets' =
           update_one(password_resets, [id |-> req[p].reset_doc.id], MarkUsed, NoFields)
    /\ Respond(p, ResetDone, req[p])
    /\ hist' = [hist EXCEPT !.consumed = @ \cup {req[p].token}]
    /\ UNCHANGED <<now, fixed, users, voice_profiles, draft_posts, demo_rate_limits,
                   rate_limit_store, outbox, nreq>>

----------------------------------------------------------------------------
(* Time *)

\* The instants the clock is observed at: the first seconds, and the seconds
\* from instant `from` on (the end of a window that opened in the first ones).
Instants(from) == (0..MaxDrift) \cup { from + k : k \in 0..MaxDrift }

\* Time passes: the clock moves on to a later instant.
Tick(instants) ==
    /\ \E t \in instants :
          /\ t > now
          /\ now' = t
    /\ UNCHANGED <<fixed, users, password_resets, voice_profiles, draft_posts,
                   demo_rate_limits, rate_limit_store, outbox, pc, req, resp, nreq, hist>>

----------------------------------------------------------------------------
(* The password-reset flow: one registered user, any environment. *)

NoHistory ==
    [consumed |-> {}, allowed_log |-> <<>>, denied |-> {}, demo_log |-> <<>>,
     persisted |-> <<>>, password_set |-> <<>>, issued |-> {},
     last_call |-> [identifier |-> <<>>, allowed |-> FALSE]]

UserDoc(id, email, password) ==
    [id |-> id, email |-> email, password |-> hash_password(password, 0),
     posts_generated |-> 0]

\* The state a forgot_password request for EmailFree, served at instant 0
\* with nothing else running, leaves behind.
LinkIssued ==
    /\ password_resets =
           <<ResetDoc(0, "u1", generate_reset_token(0 - 1).token_hash, 0)>>
    /\ outbox = {[email |-> EmailFree, token |-> generate_reset_token(0 - 1).token]}
    /\ rate_limit_store =
           check_rate_limit_store(<<>>, rate_limit_key("10.0.0.1", EmailFree), 0)
    /\ hist = [NoHistory EXCEPT !.allowed_log = rate_limit_store]

InitIdle ==
    /\ now = 0
    /\ pc = [p \in Procs |-> "idle"]
    /\ req = [p \in Procs |-> NoRequest]
    /\ resp = [p \in Procs |-> Pending]
    /\ nreq = 0

InitReset ==
    /\ InitIdle
    /\ env \in Environments
    /\ budget = MaxRequests
    /\ users = <<UserDoc("u1", EmailFree, "secret1")>>
    /\ voice_profiles = <<>>
    /\ draft_posts = {}
    /\ demo_rate_limits = <<>>
    /\ LinkIssued

TickReset == Tick(Instants(RESET_EXPIRY_MINUTES * SECONDS_PER_MINUTE))

NextReset ==
    \/ \E p \in Procs, email \in ForgotEmails, ip \in IPs : forgot_password(p, email, ip)
    \/ \E p \in Procs : forgot_password_find_user(p)
    \/ \E p \in Procs : forgot_password_delete_many(p)
    \/ \E p \in Procs : forgot_password_insert_one(p)
    \/ \E p \in Procs, token \in KnownTokens, new_password \in Passwords :
           reset_password(p, token, new_password)
    \/ \E p \in Procs : reset_password_find_one(p)
    \/ \E p \in Procs : reset_password_mark_expired(p)
    \/ \E p \in Procs : reset_password_find_user(p)
    \/ \E p \in Procs : reset_password_update_password(p)
    \/ \E p \in Procs : reset_password_mark_used(p)
    \/ TickReset

SpecReset == InitReset /\ [][NextReset]_vars

----------------------------------------------------------------------------
(* The sliding-window limiter on its own.  check_rate_limit has no await:  *)
(* whichever handler calls it, the call runs to its end before any other   *)
(* handler runs, so the calls of all handlers form one sequence.           *)

MaxCalls == 5

\* One call of check_rate_limit (lines 126-136), as forgot_password makes it.
check_rate_limit_call(identifier) ==
    /\ nreq < budget
    /\ nreq' = nreq + 1
    /\ rate_limit_store' = check_rate_limit_store(rate_limit_store, identifier, now)
    /\ LET allowed == check_rate_limit(rate_limit_store, identifier, now)
       IN  hist' = [hist EXCEPT
                      !.allowed_log =
                          IF allowed
                          THEN StorePut(@, identifier, Append(StoreGet(@, identifier), now))
                          ELSE @,
                      !.denied = IF allowed THEN @ ELSE @ \cup {identifier},
                      !.last_call = [identifier |-> identifier, allowed |-> allowed]]
    /\ UNCHANGED <<now, fixed, users, password_resets, voice_profiles, draft_posts,
                   demo_rate_limits, outbox, pc, req, resp>>

InitRate ==
    /\ InitIdle
    /\ env = [FRONTEND_URL |-> Unset, DEV_MODE |-> Unset, EMERGENT_LLM_KEY |-> TRUE]
    /\ budget = MaxCalls
    /\ users = <<>>
    /\ password_resets = <<>>
    /\ voice_profiles = <<>>
    /\ draft_posts = {}
    /\ demo_rate_limits = <<>>
    /\ rate_limit_store = <<>>
    /\ outbox = {}
    /\ hist = NoHistory

TickRate == Tick(Instants(RATE_LIMIT_WINDOW - 1) \cup Instants(RATE_LIMIT_WINDOW))

NextRate ==
    \/ \E email \in ForgotEmails, ip \in IPs :
           check_rate_limit_call(rate_limit_key(ip, email))
    \/ TickRate

SpecRate == InitRate /\ [][NextRate]_vars

----------------------------------------------------------------------------
(* POST /demo/analyze-voice and its persistent daily counter *)

DemoLimitReached ==
    ErrorResponse(429,
        "You've reached the demo limit (2 voice trainings per day). Sign up free for unlimited access!")

MIN_SAMPLE_LENGTH == 100

\* Sample texts of 99 and of 100 characters.
ShortSample ==
    "Ask more. Tell less. Watch your team transform. The best leaders do not have all the answers yet ok"
LongSample ==
    "Ask more. Tell less. Watch your team transform. The best leaders do not have all the answers yet ok."

Samples == {ShortSample, LongSample}

\* What the model's analysis collaborator may do: reply with a JSON object,
\* reply with text that holds none, or fail.
AnalysisReplies == {"json", "text", "error"}

\* The filter {"ip": ip_address, "type": "voice_train"}.
IsVoiceTrain(ip_address) == [ip |-> ip_address, type |-> "voice_train"]

\* A window test that already resets at exactly 24 hours.
WindowExpired_AtInstant(first_request, called_at) ==
    first_request <= called_at - DEMO_VOICE_LIMIT_WINDOW

\* Line 1005: the record's window ended before the call (window_start is
\* the call's `now` minus the window).
WindowExpired(first_request, called_at) ==
    first_request < called_at - DEMO_VOICE_LIMIT_WINDOW

DailyLimitReached_Above(count) == count > DEMO_VOICE_LIMIT_PER_DAY

\* Line 1014.
DailyLimitReached(count) == count >= DEMO_VOICE_LIMIT_PER_DAY

\* check_demo_voice_limit returns (allowed, remaining) to the handler.
LimitReturns(h, ip_address, called_at, allowed) ==
    [h EXCEPT !.demo_log =
        StorePut(@, ip_address,
                 Append(StoreGet(@, ip_address),
                        [at |-> called_at, allowed |-> allowed, status |-> 0]))]

\* What the handler then does with the call: the status of its response,
\* or 0 while it goes on to the collaborator.
HandlerAnswers(h, ip_address, out) ==
    LET log == StoreGet(h.demo_log, ip_address)
    IN  [h EXCEPT !.demo_log =
            StorePut(@, ip_address, [log EXCEPT ![Len(log)].status = out.status])]

\* Lines 1046-1052 and 986-990: the handler enters check_demo_voice_limit,
\* which reads the clock and issues its lookup.
demo_analyze_voice(p, ip, raw_samples) ==
    /\ Accept(p)
    /\ Suspend(p, "dv_find_one",
           [op |-> "demo_analyze_voice", serial |-> nreq + 1, ip |-> ip,
            raw_samples |-> raw_samples, called_at |-> now,
            allowed |-> FALSE, remaining |-> 0])
    /\ UNCHANGED <<now, fixed, users, password_resets, voice_profiles, draft_posts,
                   demo_rate_limits, rate_limit_store, outbox, hist>>

\* Lines 1054-1065: the handler after the limiter has let the call through.
\* It ends with an error, or suspends in the collaborator call of line 1092.
AfterLimit(p, r) ==
    IF ~env.EMERGENT_LLM_KEY
    THEN Respond(p, ErrorResponse(500, "LLM API key not configured"), r)
    ELSE IF Len(r.raw_samples) < MIN_SAMPLE_LENGTH
    THEN Respond(p,
             ErrorResponse(400, "Please provide at least 100 characters of sample posts"), r)
    ELSE Suspend(p, "dv_send_message", r)

\* Lines 990-1015: the lookup returns; the limiter refuses or goes on to write.
demo_find_one(p) ==
    /\ pc[p] = "dv_find_one"
    /\ LET i == FirstMatch(demo_rate_limits, IsVoiceTrain(req[p].ip))
       IN  IF i = 0
           THEN /\ Suspend(p, "dv_insert_one", req[p])
                /\ hist' = hist
           ELSE IF WindowExpired(demo_rate_limits[i].first_request, req[p].called_at)
           THEN /\ Suspend(p, "dv_reset", req[p])
                /\ hist' = hist
           ELSE IF DailyLimitReached(demo_rate_limits[i].count)
           THEN /\ Respond(p, DemoLimitReached, req[p])
                /\ hist' = HandlerAnswers(LimitReturns(hist, req[p].ip, req[p].called_at, FALSE),
                              req[p].ip, resp'[p])
           ELSE /\ Suspend(p, "dv_increment",
                        [req[p] EXCEPT !.remaining =
                            DEMO_VOICE_LIMIT_PER_DAY - demo_rate_limits[i].count - 1])
                /\ hist' = hist
    /\ UNCHANGED <<now, fixed, users, password_resets, voice_profiles, draft_posts,
                   demo_rate_limits, rate_limit_store, outbox, nreq>>

\* Lines 994-1001.
demo_insert_one(p) ==
    /\ pc[p] = "dv_insert_one"
    /\ demo_rate_limits' =
           insert_one(demo_rate_limits,
               [ip |-> req[p].ip, type |-> "voice_train", count |-> 1,
                first_request |-> req[p].called_at, last_request |-> req[p].called_at])
    /\ AfterLimit(p, [req[p] EXCEPT !.allowed = TRUE,
                                    !.remaining = DEMO_VOICE_LIMIT_PER_DAY - 1])
    /\ hist' = HandlerAnswers(LimitReturns(hist, req[p].ip, req[p].called_at, TRUE),
                              req[p].ip, resp'[p])
    /\ UNCHANGED <<now, fixed, users, password_resets, voice_profiles, draft_posts,
                   rate_limit_store, outbox, nreq>>

\* Lines 1007-1011.
demo_reset(p) ==
    /\ pc[p] = "dv_reset"
    /\ demo_rate_limits' =
           update_one(demo_rate_limits, IsVoiceTrain(req[p].ip),
               [count |-> 1, first_request |-> req[p].called_at,
                last_request |-> req[p].called_at],
               NoFields)
    /\ AfterLimit(p, [req[p] EXCEPT !.allowed = TRUE,
                                    !.remaining = DEMO_VOICE_LIMIT_PER_DAY - 1])
    /\ hist' = HandlerAnswers(LimitReturns(hist, req[p].ip, req[p].called_at, TRUE),
                              req[p].ip, resp'[p])
    /\ UNCHANGED <<now, fixed, users, password_resets, voice_profiles, draft_posts,
                   rate_limit_store, outbox, nreq>>

\* Lines 1018-1022.
demo_increment(p) ==
    /\ pc[p] = "dv_increment"
    /\ demo_rate_limits' =
           update_one(demo_rate_limits, IsVoiceTrain(req[p].ip),
               [last_request |-> req[p].called_at], [count |-> 1])
    /\ AfterLimit(p, [req[p] EXCEPT !.allowed = TRUE])
    /\ hist' = HandlerAnswers(LimitReturns(hist, req[p].ip, req[p].called_at, TRUE),
                              req[p].ip, resp'[p])
    /\ UNCHANGED <<now, fixed, users, password_resets, voice_profiles, draft_posts,
                   rate_limit_store, outbox, nreq>>

\* Lines 1085-1140: whatever the collaborator does, a profile is returned
\* (decoded from the reply, or one of the built-in defaults).
demo_send_message(p, reply) ==
    /\ pc[p] = "dv_send_message"
    /\ Respond(p,
           OkResponse([user_id |-> "demo", raw_samples |-> req[p].raw_samples,
                       extracted_profile |->
                           IF reply = "json" THEN "decoded" ELSE "default"]),
           req[p])
    /\ UNCHANGED <<now, fixed, users, password_resets, voice_profiles, draft_posts,
                   demo_rate_limits, rate_limit_store, outbox, nreq, hist>>

InitDemo ==
    /\ InitIdle
    /\ env \in { [FRONTEND_URL |-> Unset, DEV_MODE |-> Unset, EMERGENT_LLM_KEY |-> k] :
                   k \in BOOLEAN }
    /\ budget = MaxCalls
    /\ users = <<>>
    /\ password_resets = <<>>
    /\ voice_profiles = <<>>
    /\ draft_posts = {}
    /\ demo_rate_limits = <<>>
    /\ rate_limit_store = <<>>
    /\ outbox = {}
    /\ hist = NoHistory

TickDemo == Tick(Instants(DEMO_VOICE_LIMIT_WINDOW))

DemoSteps ==
    \/ \E p \in Procs : demo_find_one(p)
    \/ \E p \in Procs : demo_insert_one(p)
    \/ \E p \in Procs : demo_reset(p)
    \/ \E p \in Procs : demo_increment(p)
    \/ \E p \in Procs, reply \in AnalysisReplies : demo_send_message(p, reply)
    \/ TickDemo

\* Requests of one caller arrive one after the other ...
NextDemoSeq ==
    \/ \E p \in Procs, ip \in IPs, raw_samples \in Samples :
           /\ \A q \in Procs : pc[q] = "idle"
           /\ demo_analyze_voice(p, ip, raw_samples)
    \/ DemoSteps

SpecDemoSeq == InitDemo /\ [][NextDemoSeq]_vars

\* ... or at any time.
NextDemo ==
    \/ \E p \in Procs, ip \in IPs, raw_samples \in Samples :
           demo_analyze_voice(p, ip, raw_samples)
    \/ DemoSteps

SpecDemo == InitDemo /\ [][NextDemo]_vars

----------------------------------------------------------------------------
(* POST /posts/generate *)

\* JSON values, as json.loads returns them.
JStr(v) == [type |-> "string", value |-> v]
JNum(v) == [type |-> "number", value |-> v]
JObj(fields) == [type |-> "object", fields |-> fields]

\* dict.get(key, default)
Get(obj, key, default) ==
    IF key \in DOMAIN obj.fields THEN obj.fields[key] ELSE default

\* A reply is the tuple of its tokens: brackets, words, JSON values.
LBracket == [t |-> "["]
RBracket == [t |-> "]"]
Word(w) == [t |-> "word", w |-> w]
Value(v) == [t |-> "value", v |-> v]

\* str.find('[') and str.rfind(']') + 1, counting tokens from 1 (0: none).
Find(text, token) ==
    IF \E i \in DOMAIN text : text[i] = token
    THEN CHOOSE i \in DOMAIN text :
             text[i] = token /\ \A j \in DOMAIN text : text[j] = token => i <= j
    ELSE 0

RFind(text, token) ==
    IF \E i \in DOMAIN text : text[i] = token
    THEN CHOOSE i \in DOMAIN text :
             text[i] = token /\ \A j \in DOMAIN text : text[j] = token => j <= i
    ELSE 0

\* Line 661: json_start >= 0 and json_end > json_start.
HasArray(text) ==
    Find(text, LBracket) >= 1 /\ RFind(text, RBracket) >= Find(text, LBracket)

ArrayText(text) == SubSeq(text, Find(text, LBracket), RFind(text, RBracket))

\* json.loads of a bracketed text: a list of values, or a decode error.
Decodes(text) ==
    /\ Len(text) >= 2
    /\ text[1] = LBracket
    /\ text[Len(text)] = RBracket
    /\ \A i \in 2..(Len(text) - 1) : text[i].t = "value"

Decoded(text) == [i \in 1..(Len(text) - 2) |-> text[i + 1].v]

Angles == <<"Practical", "Story", "Contrarian", "Framework", "Punchy">>

\* Lines 669-675: the placeholder drafts, built from the topic.
FallbackPosts(topic) ==
    [i \in 1..5 |->
        JObj([content |-> JStr([placeholder |-> Angles[i], topic |-> topic]),
              tag |-> JStr(Angles[i])])]

posts_data_DecodeUncaught(reply, topic) ==
    IF reply.raises \/ ~HasArray(reply.text) THEN FallbackPosts(topic)
    ELSE IF ~Decodes(ArrayText(reply.text)) THEN <<>>
    ELSE Decoded(ArrayText(reply.text))

\* Lines 653-675: posts_data.
posts_data(reply, topic) ==
    IF reply.raises THEN FallbackPosts(topic)
    ELSE IF ~HasArray(reply.text) THEN FallbackPosts(topic)
    ELSE IF ~Decodes(ArrayText(reply.text)) THEN FallbackPosts(topic)
    ELSE Decoded(ArrayText(reply.text))

\* Line 681: posts_data[:5].
Limited(posts) ==
    SubSeq(posts, 1, IF Len(posts) < MAX_SAVED_POSTS THEN Len(posts) ELSE MAX_SAVED_POSTS)

Good(n, tag) == Value(JObj([content |-> JStr([written |-> n]), tag |-> JStr(tag)]))

Says(text) == [raises |-> FALSE, text |-> text]

\* What the generation collaborator may do.
Replies ==
    { [raises |-> TRUE, text |-> <<>>],
      Says(<<Word("Sorry"), Word("no"), Word("posts")>>),
      Says(<<RBracket, Word("then"), LBracket>>),
      Says(<<Word("Here"), LBracket, Good(1, "Practical"), Good(2, "Story"),
             Good(3, "Contrarian"), Good(4, "Framework"), Good(5, "Punchy"), RBracket>>),
      Says(<<LBracket, Good(1, "Practical"), Good(2, "Story"), Good(3, "Viral"), RBracket>>),
      Says(<<LBracket, Good(1, "Practical"), Good(2, "Story"), Good(3, "Contrarian"),
             Good(4, "Framework"), Good(5, "Punchy"), Good(6, "Viral"), RBracket>>),
      Says(<<LBracket, Good(1, "Practical"), Word("oops"), RBracket>>),
      Says(<<LBracket, Good(1, "Practical"), Value(JStr("just text")), RBracket>>),
      Says(<<LBracket, Value(JObj([content |-> JNum(42)])), RBracket>>) }

Topics == {"pricing"}

LimitError ==
    ErrorResponse(403,
        "You've reached the free limit of 10 generated posts. Upgrade to continue.")
ServerError == ErrorResponse(500, "Internal Server Error")

\* Valid bearer tokens are held for every registered user.
UserIds == { users[i].id : i \in DOMAIN users }

\* get_current_user, lines 210-214: the token is decoded, the user looked up.
generate_posts(p, user_id, topic) ==
    /\ Accept(p)
    /\ Suspend(p, "gp_current_user",
           [op |-> "generate_posts", serial |-> nreq + 1, token_user_id |-> user_id,
            topic |-> topic, audience |-> "none",
            count_at_call |->
                users[FirstMatch(users, [id |-> user_id])].posts_generated,
            llm_calls |-> 0, saved_posts |-> <<>>])
    /\ UNCHANGED <<now, fixed, users, password_resets, voice_profiles, draft_posts,
                   demo_rate_limits, rate_limit_store, outbox, hist>>

\* Lines 562-567: the key is checked, the profile lookup issued.
CheckKey(p, r) ==
    IF ~env.EMERGENT_LLM_KEY
    THEN Respond(p, ErrorResponse(500, "LLM API key not configured"), r)
    ELSE Suspend(p, "gp_find_profile", r)

\* Lines 214-217 and 548-553.
generate_current_user(p) ==
    /\ pc[p] = "gp_current_user"
    /\ LET i == FirstMatch(users, [id |-> req[p].token_user_id])
           r == [user |-> [id |-> users[i].id, email |-> users[i].email],
                 is_admin |-> is_admin_user(users[i].email)] @@ req[p]
       IN  IF i = 0
           THEN Respond(p, ErrorResponse(401, "User not found"), req[p])
           ELSE IF r.is_admin THEN CheckKey(p, r)
           ELSE Suspend(p, "gp_find_user", r)
    /\ UNCHANGED <<now, fixed, users, password_resets, voice_profiles, draft_posts,
                   demo_rate_limits, rate_limit_store, outbox, nreq, hist>>

FreeLimitReached_Above(posts_generated) == posts_generated > FREE_POST_LIMIT

\* Line 556.
FreeLimitReached(posts_generated) == posts_generated >= FREE_POST_LIMIT

\* Lines 553-567.
generate_find_user(p) ==
    /\ pc[p] = "gp_find_user"
    /\ LET i == FirstMatch(users, [id |-> req[p].user.id])
           posts_generated == IF i = 0 THEN 0 ELSE users[i].posts_generated
       IN  IF FreeLimitReached(posts_generated)
           THEN Respond(p, LimitError, req[p])
           ELSE CheckKey(p, req[p])
    /\ UNCHANGED <<now, fixed, users, password_resets, voice_profiles, draft_posts,
                   demo_rate_limits, rate_limit_store, outbox, nreq, hist>>

\* Lines 567-654: the profile is read, the prompt built, the collaborator asked.
generate_find_profile(p) ==
    /\ pc[p] = "gp_find_profile"
    /\ IF FirstMatch(voice_profiles, [user_id |-> req[p].user.id]) = 0
       THEN Respond(p, ErrorResponse(400, "Please create a voice profile first"), req[p])
       ELSE Suspend(p, "gp_send_message", [req[p] EXCEPT !.llm_calls = @ + 1])
    /\ UNCHANGED <<now, fixed, users, password_resets, voice_profiles, draft_posts,
                   demo_rate_limits, rate_limit_store, outbox, nreq, hist>>

\* Pydantic accepts content and tag only as strings (DraftPostResponse).
IsStr(v) == v.type = "string"

\* Lines 681-698 for the next item, or 701-708 when none is left: the handler
\* runs up to its next await, or to its end.
NextItem(p, r) ==
    IF Len(r.saved_posts) < Len(r.items)
    THEN IF r.items[Len(r.saved_posts) + 1].type # "object"
         THEN Respond(p, ServerError, r)
         ELSE Suspend(p, "gp_insert_one", r)
    ELSE IF r.is_admin
         THEN Respond(p, OkResponse([posts |-> r.saved_posts]), r)
         ELSE Suspend(p, "gp_increment", r)

\* What the request remembers of the reply (kept for the properties): the
\* collaborator failed, or its text has no "[" followed by a "]", or the text
\* from the first "[" to the last "]" does not decode.
Unusable(reply) ==
    \/ reply.raises
    \/ ~\E i, j \in DOMAIN reply.text :
           i < j /\ reply.text[i] = LBracket /\ reply.text[j] = RBracket
    \/ ~Decodes(ArrayText(reply.text))

\* Lines 654-681: the collaborator replies (or fails), the reply is parsed.
generate_send_message(p, reply) ==
    /\ pc[p] = "gp_send_message"
    /\ NextItem(p, [items |-> Limited(posts_data(reply, req[p].topic)),
                    unusable_reply |-> Unusable(reply)] @@ req[p])
    /\ UNCHANGED <<now, fixed, users, password_resets, voice_profiles, draft_posts,
                   demo_rate_limits, rate_limit_store, outbox, nreq, hist>>

\* Lines 682-696.
PostDoc(r) ==
    LET post_data == r.items[Len(r.saved_posts) + 1]
    IN  [id |-> <<"post", r.serial, Len(r.saved_posts) + 1>>,
         user_id |-> r.user.id, topic |-> r.topic, audience |-> r.audience,
         content |-> Get(post_data, "content", JStr("")),
         tags |-> <<Get(post_data, "tag", JStr("Practical"))>>,
         is_favorite |-> FALSE, created_at |-> now, updated_at |-> now]

\* Lines 698-699, then the loop goes on.
generate_insert_one(p) ==
    /\ pc[p] = "gp_insert_one"
    /\ draft_posts' = draft_posts \cup {PostDoc(req[p])}
    /\ hist' = [hist EXCEPT !.persisted[req[p].user.id] = @ + 1]
    /\ IF IsStr(PostDoc(req[p]).content) /\ IsStr(PostDoc(req[p]).tags[1])
       THEN NextItem(p, [req[p] EXCEPT !.saved_posts = Append(@, PostDoc(req[p]).id)])
       ELSE Respond(p, ServerError, req[p])
    /\ UNCHANGED <<now, fixed, users, password_resets, voice_profiles,
                   demo_rate_limits, rate_limit_store, outbox, nreq>>

\* Lines 702-708.
generate_increment(p) ==
    /\ pc[p] = "gp_increment"
    /\ users' = update_one(users, [id |-> req[p].user.id], NoFields,
                    [posts_generated |-> Len(req[p].saved_posts)])
    /\ Respond(p, OkResponse([posts |-> req[p].saved_posts]), req[p])
    /\ UNCHANGED <<now, fixed, password_resets, voice_profiles, draft_posts,
                   demo_rate_limits, rate_limit_store, outbox, nreq, hist>>

\* A voice profile, as analyze_voice stores it.
ProfileDoc(id, user_id) ==
    [id |-> id, user_id |-> user_id, raw_samples |-> LongSample,
     extracted_profile |-> "default",
     settings |-> [post_length |-> "medium", emoji |-> "light", hashtags |-> "1-3",
                   cta |-> "soft", risk_filter |-> "balanced"],
     created_at |-> 0, updated_at |-> 0]

\* The drafts an earlier generate_posts request (numbered `serial`) left
\* behind when its collaborator failed.
EarlierDrafts(serial, user_id, topic) ==
    { [id |-> <<"post", serial, k>>, user_id |-> user_id, topic |-> topic,
       audience |-> "none",
       content |-> FallbackPosts(topic)[k].fields.content,
       tags |-> <<FallbackPosts(topic)[k].fields.tag>>,
       is_favorite |-> FALSE, created_at |-> 0, updated_at |-> 0] : k \in 1..5 }

\* A free user who has generated once, and a privileged user who has
\* generated twice; both have a voice profile.
InitGen ==
    /\ InitIdle
    /\ env = [FRONTEND_URL |-> Unset, DEV_MODE |-> Unset, EMERGENT_LLM_KEY |-> TRUE]
    /\ budget = MaxRequests
    /\ users = << [UserDoc("u1", EmailFree, "secret1") EXCEPT !.posts_generated = 5],
                  UserDoc("u2", EmailAdmin, "secret2") >>
    /\ voice_profiles = <<ProfileDoc("vp1", "u1"), ProfileDoc("vp2", "u2")>>
    /\ draft_posts = EarlierDrafts(0 - 1, "u1", "pricing")
                        \cup EarlierDrafts(0 - 2, "u2", "pricing")
                        \cup EarlierDrafts(0 - 3, "u2", "pricing")
    /\ password_resets = <<>>
    /\ demo_rate_limits = <<>>
    /\ rate_limit_store = <<>>
    /\ outbox = {}
    /\ hist = [NoHistory EXCEPT !.persisted = [u \in {"u1", "u2"} |->
                                                  IF u = "u1" THEN 5 ELSE 10]]

NextGen ==
    \/ \E p \in Procs, user_id \in UserIds, topic \in Topics :
           generate_posts(p, user_id, topic)
    \/ \E p \in Procs : generate_current_user(p)
    \/ \E p \in Procs : generate_find_user(p)
    \/ \E p \in Procs : generate_find_profile(p)
    \/ \E p \in Procs, reply \in Replies : generate_send_message(p, reply)
    \/ \E p \in Procs : generate_insert_one(p)
    \/ \E p \in Procs : generate_increment(p)

SpecGen == InitGen /\ [][NextGen]_vars

----------------------------------------------------------------------------
(* POST /auth/register, POST /auth/login *)

JWT_EXPIRATION_HOURS == 24
SECONDS_PER_HOUR == 3600

\* The signing key of the deployment, and a key it does not have.
JWT_SECRET == "ghostwriter_secret_key_2024"

\* Lines 146-152: the claims, and the key the signature was made with.
create_token(user_id, at) ==
    [user_id |-> user_id,
     exp |-> at + JWT_EXPIRATION_HOURS * SECONDS_PER_HOUR,
     iat |-> at,
     key |-> JWT_SECRET]

\* EmailFree with another letter case in its local part (EmailStr keeps it).
EmailUpper == <<"A","@","x",".","c","o","m">>

AuthEmails == {EmailFree, EmailUpper, EmailUnknown}
RegisterPasswords == {"secret1"}
LoginPasswords == {"secret1", "wrongpw"}
Names == {"Ann"}

EmailTaken == ErrorResponse(400, "Email already registered")
InvalidCredentials == ErrorResponse(401, "Invalid credentials")

\* Lines 231-238.
user_doc(serial, email, password, name, at) ==
    [id |-> <<"user", serial>>, email |-> email,
     password |-> hash_password(password, serial), name |-> name,
     created_at |-> at, posts_generated |-> 0]

\* TokenResponse.
TokenResponse(token, user) ==
    OkResponse([access_token |-> token, token_type |-> "bearer",
                user |-> [id |-> user.id, email |-> user.email, name |-> user.name,
                          created_at |-> user.created_at]])

\* Line 227: the lookup is issued.
register(p, email, password, name) ==
    /\ Accept(p)
    /\ Suspend(p, "rg_find_one",
           [op |-> "register", serial |-> nreq + 1, email |-> email,
            password |-> password, name |-> name,
            registered_at_call |-> Matching(users, [email |-> email]) # {}])
    /\ UNCHANGED <<now, fixed, users, password_resets, voice_profiles, draft_posts,
                   demo_rate_limits, rate_limit_store, outbox, hist>>

\* Lines 227-239.
register_find_one(p) ==
    /\ pc[p] = "rg_find_one"
    /\ IF FirstMatch(users, [email |-> req[p].email]) # 0
       THEN Respond(p, EmailTaken, req[p])
       ELSE Suspend(p, "rg_insert_one",
                [user_doc |-> user_doc(req[p].serial, req[p].email, req[p].password,
                                       req[p].name, now)] @@ req[p])
    /\ UNCHANGED <<now, fixed, users, password_resets, voice_profiles, draft_posts,
                   demo_rate_limits, rate_limit_store, outbox, nreq, hist>>

\* Lines 239-246.
register_insert_one(p) ==
    /\ pc[p] = "rg_insert_one"
    /\ users' = insert_one(users, req[p].user_doc)
    /\ Respond(p, TokenResponse(create_token(req[p].user_doc.id, now), req[p].user_doc),
               req[p])
    /\ UNCHANGED <<now, fixed, password_resets, voice_profiles, draft_posts,
                   demo_rate_limits, rate_limit_store, outbox, nreq, hist>>

\* Line 250: the lookup is issued.
login(p, email, password) ==
    /\ Accept(p)
    /\ Suspend(p, "lg_find_one",
           [op |-> "login", serial |-> nreq + 1, email |-> email,
            password |-> password])
    /\ UNCHANGED <<now, fixed, users, password_resets, voice_profiles, draft_posts,
                   demo_rate_limits, rate_limit_store, outbox, hist>>

\* Lines 250-258.  The request remembers the users collection it read.
login_find_one(p) ==
    /\ pc[p] = "lg_find_one"
    /\ LET i == FirstMatch(users, [email |-> req[p].email])
           r == [users_read |-> users, password_set_read |-> hist.password_set] @@ req[p]
       IN  IF i = 0 \/ ~verify_password(req[p].password, users[i].password)
           THEN Respond(p, InvalidCredentials, r)
           ELSE Respond(p, TokenResponse(create_token(users[i].id, now), users[i]), r)
    /\ hist' = [hist EXCEPT !.issued =
                   IF resp'[p].status = 200 THEN @ \cup {resp'[p].body.access_token}
                   ELSE @]
    /\ UNCHANGED <<now, fixed, users, password_resets, voice_profiles, draft_posts,
                   demo_rate_limits, rate_limit_store, outbox, nreq>>

\* One account (a@x.com, registered at instant 0) exists.
InitAuth ==
    /\ InitIdle
    /\ env = [FRONTEND_URL |-> Unset, DEV_MODE |-> Unset, EMERGENT_LLM_KEY |-> TRUE]
    /\ budget = MaxRequests
    /\ users = <<user_doc(0 - 1, EmailFree, "secret1", "Ann", 0)>>
    /\ password_resets = <<>>
    /\ voice_profiles = <<>>
    /\ draft_posts = {}
    /\ demo_rate_limits = <<>>
    /\ rate_limit_store = <<>>
    /\ outbox = {}
    /\ hist = NoHistory

NextAuth ==
    \/ \E p \in Procs, email \in AuthEmails, password \in RegisterPasswords,
          name \in Names : register(p, email, password, name)
    \/ \E p \in Procs : register_find_one(p)
    \/ \E p \in Procs : register_insert_one(p)
    \/ \E p \in Procs, email \in AuthEmails, password \in LoginPasswords :
           login(p, email, password)
    \/ \E p \in Procs : login_find_one(p)

SpecAuth == InitAuth /\ [][NextAuth]_vars

----------------------------------------------------------------------------
(* Login while passwords are being reset *)

NewPasswords == {"newpw1", "newpw2"}
PresentedPasswords == {"secret1", "newpw1", "newpw2"}
PresentedEmails == {EmailFree, EmailUnknown}

\* The account a@x.com, registered with password secret1, after a
\* forgot_password request served at instant 0.
LinkPending ==
    /\ users = <<user_doc(0 - 1, EmailFree, "secret1", "Ann", 0)>>
    /\ password_resets =
           <<ResetDoc(0, <<"user", 0 - 1>>, generate_reset_token(0 - 2).token_hash, 0)>>
    /\ outbox = {[email |-> EmailFree, token |-> generate_reset_token(0 - 2).token]}
    /\ rate_limit_store =
           check_rate_limit_store(<<>>, rate_limit_key("10.0.0.1", EmailFree), 0)
    /\ hist = [NoHistory EXCEPT !.allowed_log = rate_limit_store,
                                !.password_set = StorePut(<<>>, <<"user", 0 - 1>>, "secret1")]

\* The same account after that link was used to set newpw1 and a second
\* forgot_password request was served (it deleted the used record).
LinkPendingAfterReset ==
    /\ users = <<[user_doc(0 - 1, EmailFree, "secret1", "Ann", 0)
                    EXCEPT !.password = hash_password("newpw1", 0 - 3)]>>
    /\ password_resets =
           <<ResetDoc(0, <<"user", 0 - 1>>, generate_reset_token(0 - 4).token_hash, 0)>>
    /\ outbox = {[email |-> EmailFree, token |-> generate_reset_token(0 - 2).token],
                 [email |-> EmailFree, token |-> generate_reset_token(0 - 4).token]}
    /\ rate_limit_store =
           check_rate_limit_store(
               check_rate_limit_store(<<>>, rate_limit_key("10.0.0.1", EmailFree), 0),
               rate_limit_key("10.0.0.1", EmailFree), 0)
    /\ hist = [NoHistory EXCEPT !.allowed_log = rate_limit_store,
                                !.consumed = {generate_reset_token(0 - 2).token},
                                !.password_set = StorePut(<<>>, <<"user", 0 - 1>>, "newpw1")]

InitLogin ==
    /\ InitIdle
    /\ env = [FRONTEND_URL |-> ProductionUrl, DEV_MODE |-> Unset, EMERGENT_LLM_KEY |-> TRUE]
    /\ budget = MaxRequests
    /\ voice_profiles = <<>>
    /\ draft_posts = {}
    /\ demo_rate_limits = <<>>
    /\ (LinkPending \/ LinkPendingAfterReset)

NextLogin ==
    \/ \E p \in Procs, m \in outbox, new_password \in NewPasswords :
           reset_password(p, m.token, new_password)
    \/ \E p \in Procs : reset_password_find_one(p)
    \/ \E p \in Procs : reset_password_find_user(p)
    \/ \E p \in Procs : reset_password_update_password(p)
    \/ \E p \in Procs : reset_password_mark_used(p)
    \/ \E p \in Procs, email \in PresentedEmails, password \in PresentedPasswords :
           login(p, email, password)
    \/ \E p \in Procs : login_find_one(p)

SpecLogin == InitLogin /\ [][NextLogin]_vars

----------------------------------------------------------------------------
(* Bearer authentication: HTTPBearer and get_current_user *)

\* What the Authorization header carries.
Missing == [scheme |-> "none"]
Bearer(token) == [scheme |-> "Bearer", token |-> token]

\* A token signed with another key, and a well-signed one without user_id.
ForgedToken(user_id, at) == [create_token(user_id, at) EXCEPT !.key = "another_key"]
AnonymousToken(at) ==
    [exp |-> at + JWT_EXPIRATION_HOURS * SECONDS_PER_HOUR, iat |-> at, key |-> JWT_SECRET]

\* Two things the source leaves to the installed libraries: the status
\* HTTPBearer answers a request without credentials with, and whether
\* jwt.decode treats the expiry instant itself as expired.
Libraries ==
    [bearer_missing_status : {401, 403}, jwt_expired_at_exp : BOOLEAN]

SignatureExpired_Never(exp, at) == FALSE

\* The exp check of jwt.decode at instant `at`.
SignatureExpired(exp, at) == at > exp \/ (at = exp /\ env.jwt_expired_at_exp)

\* Line 210, jwt.decode: the signature is verified, then exp.
jwt_decode(token, at) ==
    IF token.key # JWT_SECRET THEN "InvalidTokenError"
    ELSE IF SignatureExpired(token.exp, at) THEN "ExpiredSignatureError"
    ELSE "payload"

NotAuthenticated == ErrorResponse(env.bearer_missing_status, "Not authenticated")
InvalidToken == ErrorResponse(401, "Invalid token")
TokenExpired == ErrorResponse(401, "Token expired")
UserNotFound == ErrorResponse(401, "User not found")

\* Lines 208-214 and 218-221, before the handler of `route` is entered: the
\* request ends here or waits for users.find_one.
get_current_user(p, route, credentials, args) ==
    /\ Accept(p)
    /\ LET r == [op |-> route, serial |-> nreq + 1, credentials |-> credentials,
                 args |-> args, called_at |-> now,
                 known_user_at_call |->
                     /\ credentials # Missing
                     /\ "user_id" \in DOMAIN credentials.token
                     /\ Matching(users, [id |-> credentials.token.user_id]) # {}]
       IN  IF credentials = Missing THEN Respond(p, NotAuthenticated, r)
           ELSE IF jwt_decode(credentials.token, now) = "InvalidTokenError"
           THEN Respond(p, InvalidToken, r)
           ELSE IF jwt_decode(credentials.token, now) = "ExpiredSignatureError"
           THEN Respond(p, TokenExpired, r)
           ELSE IF "user_id" \notin DOMAIN credentials.token
           THEN Respond(p, InvalidToken, r)
           ELSE Suspend(p, "auth_find_one", r)
    /\ UNCHANGED <<now, fixed, users, password_resets, voice_profiles, draft_posts,
                   demo_rate_limits, rate_limit_store, outbox, hist>>

\* The projection {"_id": 0, "password": 0}.
WithoutPassword(user) == [k \in DOMAIN user \ {"password"} |-> user[k]]

\* UserResponse(**user).
UserResponse(user) ==
    OkResponse([id |-> user.id, email |-> user.email, name |-> user.name,
                created_at |-> user.created_at])

----------------------------------------------------------------------------
(* The bearer-protected routes *)

Routes ==
    {"get_me", "analyze_voice", "get_voice_profile", "update_guardrails",
     "generate_posts", "get_posts", "update_post", "delete_post", "regenerate_post"}

PostNotFound == ErrorResponse(404, "Post not found")

\* db.draft_posts.find_one(query), or NoDraft.
NoDraft == [id |-> <<>>]
DraftsMatching(query) == { d \in draft_posts : Matches(d, query) }
FindDraft(query) ==
    IF DraftsMatching(query) = {} THEN NoDraft ELSE CHOOSE d \in DraftsMatching(query) : TRUE

\* A lookup by id alone.
OwnedDraft_AnyOwner(post_id, user_id) == [id |-> post_id]

\* The query of lines 721, 738 and 747: the draft with this id, if the
\* caller owns it.
OwnedDraft(post_id, user_id) == [id |-> post_id, user_id |-> user_id]

\* db.draft_posts.update_one(query, {"$set": set}); ids are unique.
UpdateDraft(query, set) ==
    { IF d = FindDraft(query) THEN Updated(d, set, NoFields) ELSE d : d \in draft_posts }

\* DraftPostResponse(**doc); a missing document raises.
DraftPostResponse(doc) ==
    IF doc = NoDraft THEN ServerError ELSE OkResponse(doc)

\* Lines 218-219 have returned the user: the handler of the route runs up to
\* its first await (or to its end).
EnterRoute(p, r) ==
    CASE r.op = "get_me" -> Respond(p, UserResponse(r.user), r)
      [] r.op = "analyze_voice" ->
            IF ~env.EMERGENT_LLM_KEY
            THEN Respond(p, ErrorResponse(500, "LLM API key not configured"), r)
            ELSE Suspend(p, "av_send_message", r)
      [] r.op = "get_voice_profile" -> Suspend(p, "vp_find_one", r)
      [] r.op = "update_guardrails" -> Suspend(p, "vs_find_one", r)
      [] r.op = "generate_posts" ->
            LET g == [token_user_id |-> r.user.id, topic |-> r.args.topic,
                      audience |-> "none", count_at_call |-> r.user.posts_generated,
                      llm_calls |-> 0, saved_posts |-> <<>>,
                      is_admin |-> is_admin_user(r.user.email)] @@ r
            IN  IF g.is_admin THEN CheckKey(p, g) ELSE Suspend(p, "gp_find_user", g)
      [] r.op = "get_posts" -> Suspend(p, "ps_find", r)
      [] r.op = "update_post" -> Suspend(p, "up_find_one", r)
      [] r.op = "delete_post" -> Suspend(p, "dp_delete_one", r)
      [] r.op = "regenerate_post" -> Suspend(p, "rn_find_post", r)

\* Lines 214-219, then the handler's start.
get_current_user_find_one(p) ==
    /\ pc[p] = "auth_find_one"
    /\ LET i == FirstMatch(users, [id |-> req[p].credentials.token.user_id])
       IN  IF i = 0
           THEN Respond(p, UserNotFound, req[p])
           ELSE EnterRoute(p, [user |-> WithoutPassword(users[i])] @@ req[p])
    /\ UNCHANGED <<now, fixed, users, password_resets, voice_profiles, draft_posts,
                   demo_rate_limits, rate_limit_store, outbox, nreq, hist>>

\* Lines 711-717.  The reply lists the matching drafts, newest first; drafts
\* with equal created_at come in an order the store chooses.
get_posts_find(p) ==
    /\ pc[p] = "ps_find"
    /\ LET query == IF req[p].args.favorites_only
                    THEN [user_id |-> req[p].user.id, is_favorite |-> TRUE]
                    ELSE [user_id |-> req[p].user.id]
       IN  Respond(p, OkResponse([posts |-> DraftsMatching(query)]), req[p])
    /\ UNCHANGED <<now, fixed, users, password_resets, voice_profiles, draft_posts,
                   demo_rate_limits, rate_limit_store, outbox, nreq, hist>>

\* An update that writes an absent is_favorite as false.
update_data_AllFields(update, at) ==
    update @@ [updated_at |-> at, is_favorite |-> FALSE]

\* Lines 725-729: updated_at, and the fields the request carries.
update_data(update, at) == update @@ [updated_at |-> at]

\* Lines 721-731: the owned draft is looked up, update_data is built.
update_post_find_one(p) ==
    /\ pc[p] = "up_find_one"
    /\ IF FindDraft(OwnedDraft(req[p].args.post_id, req[p].user.id)) = NoDraft
       THEN Respond(p, PostNotFound, req[p])
       ELSE Suspend(p, "up_update_one",
                [update_data |-> update_data(req[p].args.update, now)] @@ req[p])
    /\ UNCHANGED <<now, fixed, users, password_resets, voice_profiles, draft_posts,
                   demo_rate_limits, rate_limit_store, outbox, nreq, hist>>

\* Line 731.
update_post_update_one(p) ==
    /\ pc[p] = "up_update_one"
    /\ draft_posts' = UpdateDraft([id |-> req[p].args.post_id], req[p].update_data)
    /\ Suspend(p, "up_find_updated", req[p])
    /\ UNCHANGED <<now, fixed, users, password_resets, voice_profiles,
                   demo_rate_limits, rate_limit_store, outbox, nreq, hist>>

\* Lines 733-734.
update_post_find_updated(p) ==
    /\ pc[p] = "up_find_updated"
    /\ Respond(p, DraftPostResponse(FindDraft([id |-> req[p].args.post_id])), req[p])
    /\ UNCHANGED <<now, fixed, users, password_resets, voice_profiles, draft_posts,
                   demo_rate_limits, rate_limit_store, outbox, nreq, hist>>

\* Lines 738-741.
delete_post_delete_one(p) ==
    /\ pc[p] = "dp_delete_one"
    /\ LET found == FindDraft(OwnedDraft(req[p].args.post_id, req[p].user.id))
       IN  /\ draft_posts' = draft_posts \ {found}
           /\ IF found = NoDraft
              THEN Respond(p, PostNotFound, req[p])
              ELSE Respond(p, OkResponse([message |-> "Post deleted"]), req[p])
    /\ UNCHANGED <<now, fixed, users, password_resets, voice_profiles,
                   demo_rate_limits, rate_limit_store, outbox, nreq, hist>>

\* str.strip() on a text given as the tuple of its pieces, " " being
\* white space.
RECURSIVE LStrip(_)
LStrip(text) ==
    IF text # <<>> /\ Head(text) = " " THEN LStrip(Tail(text)) ELSE text

RECURSIVE RStrip(_)
RStrip(text) ==
    IF text # <<>> /\ text[Len(text)] = " "
    THEN RStrip(SubSeq(text, 1, Len(text) - 1)) ELSE text

Strip(text) == RStrip(LStrip(text))

\* What the collaborator may do when asked for one new post.
RegenerateReplies ==
    { [raises |-> TRUE, text |-> <<>>],
      [raises |-> FALSE, text |-> <<" ", "A", " ", "new", " ", "post", " ">>] }

\* Lines 747-749.
regenerate_post_find_post(p) ==
    /\ pc[p] = "rn_find_post"
    /\ LET post == FindDraft(OwnedDraft(req[p].args.post_id, req[p].user.id))
       IN  IF post = NoDraft
           THEN Respond(p, PostNotFound, req[p])
           ELSE Suspend(p, "rn_find_profile", [post |-> post] @@ req[p])
    /\ UNCHANGED <<now, fixed, users, password_resets, voice_profiles, draft_posts,
                   demo_rate_limits, rate_limit_store, outbox, nreq, hist>>

\* Lines 751-768.
regenerate_post_find_profile(p) ==
    /\ pc[p] = "rn_find_profile"
    /\ IF \/ ~env.EMERGENT_LLM_KEY
          \/ FirstMatch(voice_profiles, [user_id |-> req[p].user.id]) = 0
       THEN Respond(p, ErrorResponse(400, "Cannot regenerate without voice profile"),
                    req[p])
       ELSE Suspend(p, "rn_send_message", req[p])
    /\ UNCHANGED <<now, fixed, users, password_resets, voice_profiles, draft_posts,
                   demo_rate_limits, rate_limit_store, outbox, nreq, hist>>

\* Lines 767-776: the new content is the stripped reply, or on failure the
\* content of the post as it was read at line 747.
regenerate_post_send_message(p, reply) ==
    /\ pc[p] = "rn_send_message"
    /\ Suspend(p, "rn_update_one",
           [failed |-> reply.raises,
            new_content |-> IF reply.raises THEN req[p].post.content
                            ELSE JStr(Strip(reply.text)),
            update_now |-> now] @@ req[p])
    /\ UNCHANGED <<now, fixed, users, password_resets, voice_profiles, draft_posts,
                   demo_rate_limits, rate_limit_store, outbox, nreq, hist>>

\* Lines 777-780.
regenerate_post_update_one(p) ==
    /\ pc[p] = "rn_update_one"
    /\ draft_posts' = UpdateDraft([id |-> req[p].args.post_id],
                          [content |-> req[p].new_content,
                           updated_at |-> req[p].update_now])
    /\ Suspend(p, "rn_find_updated", req[p])
    /\ UNCHANGED <<now, fixed, users, password_resets, voice_profiles,
                   demo_rate_limits, rate_limit_store, outbox, nreq, hist>>

\* Lines 784-785.
regenerate_post_find_updated(p) ==
    /\ pc[p] = "rn_find_updated"
    /\ Respond(p, DraftPostResponse(FindDraft([id |-> req[p].args.post_id])), req[p])
    /\ UNCHANGED <<now, fixed, users, password_resets, voice_profiles, draft_posts,
                   demo_rate_limits, rate_limit_store, outbox, nreq, hist>>

\* Lines 518-521.
get_voice_profile_find_one(p) ==
    /\ pc[p] = "vp_find_one"
    /\ LET i == FirstMatch(voice_profiles, [user_id |-> req[p].user.id])
       IN  IF i = 0 THEN Respond(p, OkResponse([null |-> TRUE]), req[p])
           ELSE Respond(p, OkResponse(voice_profiles[i]), req[p])
    /\ UNCHANGED <<now, fixed, users, password_resets, voice_profiles, draft_posts,
                   demo_rate_limits, rate_limit_store, outbox, nreq, hist>>

\* Lines 525-529.
update_guardrails_find_one(p) ==
    /\ pc[p] = "vs_find_one"
    /\ IF FirstMatch(voice_profiles, [user_id |-> req[p].user.id]) = 0
       THEN Respond(p, ErrorResponse(404,
                        "Voice profile not found. Please create one first."), req[p])
       ELSE Suspend(p, "vs_update_one", [update_now |-> now] @@ req[p])
    /\ UNCHANGED <<now, fixed, users, password_resets, voice_profiles, draft_posts,
                   demo_rate_limits, rate_limit_store, outbox, nreq, hist>>

\* Lines 530-536.
update_guardrails_update_one(p) ==
    /\ pc[p] = "vs_update_one"
    /\ voice_profiles' = update_one(voice_profiles, [user_id |-> req[p].user.id],
                             [settings |-> req[p].args.settings,
                              updated_at |-> req[p].update_now], NoFields)
    /\ Suspend(p, "vs_find_updated", req[p])
    /\ UNCHANGED <<now, fixed, users, password_resets, draft_posts,
                   demo_rate_limits, rate_limit_store, outbox, nreq, hist>>

\* Lines 538-539.
update_guardrails_find_updated(p) ==
    /\ pc[p] = "vs_find_updated"
    /\ LET i == FirstMatch(voice_profiles, [user_id |-> req[p].user.id])
       IN  IF i = 0 THEN Respond(p, ServerError, req[p])
           ELSE Respond(p, OkResponse(voice_profiles[i]), req[p])
    /\ UNCHANGED <<now, fixed, users, password_resets, voice_profiles, draft_posts,
                   demo_rate_limits, rate_limit_store, outbox, nreq, hist>>

DefaultSettings ==
    [post_length |-> "medium", emoji |-> "light", hashtags |-> "1-3",
     cta |-> "soft", risk_filter |-> "balanced"]

\* Lines 423-477: whatever the collaborator does, a profile is extracted
\* (decoded from the reply, or one of the built-in defaults); then the
\* profile document is built and the lookup of line 477 is issued.
analyze_voice_send_message(p, reply) ==
    /\ pc[p] = "av_send_message"
    /\ Suspend(p, "av_find_existing",
           [profile_doc |->
               [id |-> <<"profile", req[p].serial>>, user_id |-> req[p].user.id,
                raw_samples |-> req[p].args.raw_samples,
                extracted_profile |-> IF reply = "json" THEN "decoded" ELSE "default",
                settings |-> req[p].args.settings @@ DefaultSettings,
                created_at |-> now, updated_at |-> now]] @@ req[p])
    /\ UNCHANGED <<now, fixed, users, password_resets, voice_profiles, draft_posts,
                   demo_rate_limits, rate_limit_store, outbox, nreq, hist>>

\* Lines 477-498.
analyze_voice_find_existing(p) ==
    /\ pc[p] = "av_find_existing"
    /\ LET i == FirstMatch(voice_profiles, [user_id |-> req[p].user.id])
       IN  IF i = 0 THEN Suspend(p, "av_insert_one", req[p])
           ELSE Suspend(p, "av_update_one", [existing |-> voice_profiles[i]] @@ req[p])
    /\ UNCHANGED <<now, fixed, users, password_resets, voice_profiles, draft_posts,
                   demo_rate_limits, rate_limit_store, outbox, nreq, hist>>

\* Lines 500-511 and 515.
analyze_voice_update_one(p) ==
    /\ pc[p] = "av_update_one"
    /\ voice_profiles' = update_one(voice_profiles, [user_id |-> req[p].user.id],
                             [raw_samples |-> req[p].profile_doc.raw_samples,
                              extracted_profile |-> req[p].profile_doc.extracted_profile,
                              settings |-> req[p].profile_doc.settings,
                              updated_at |-> req[p].profile_doc.updated_at], NoFields)
    /\ Respond(p, OkResponse([req[p].profile_doc EXCEPT
                                  !.id = req[p].existing.id,
                                  !.created_at = req[p].existing.created_at]), req[p])
    /\ UNCHANGED <<now, fixed, users, password_resets, draft_posts,
                   demo_rate_limits, rate_limit_store, outbox, nreq, hist>>

\* Lines 512-515.
analyze_voice_insert_one(p) ==
    /\ pc[p] = "av_insert_one"
    /\ voice_profiles' = insert_one(voice_profiles, req[p].profile_doc)
    /\ Respond(p, OkResponse(req[p].profile_doc), req[p])
    /\ UNCHANGED <<now, fixed, users, password_resets, draft_posts,
                   demo_rate_limits, rate_limit_store, outbox, nreq, hist>>

----------------------------------------------------------------------------
(* Requests to the protected routes, with good and bad credentials *)

\* The account of the session specifications and its one draft.
SessionUser == user_doc(0 - 1, EmailFree, "secret1", "Ann", 0)
SessionDraft == { d \in EarlierDrafts(0 - 2, SessionUser.id, "pricing") : d.id[3] = 1 }

\* A token issued a day and a second ago.
StaleToken(user_id) ==
    create_token(user_id, 0 - JWT_EXPIRATION_HOURS * SECONDS_PER_HOUR - 1)

GoodCredentials == Bearer(create_token(SessionUser.id, 0))

\* No header, a forged signature, no user_id, an expired token, and a
\* well-signed token for an id that no user has.
BadCredentials ==
    { Missing,
      Bearer(ForgedToken(SessionUser.id, 0)),
      Bearer(AnonymousToken(0)),
      Bearer(StaleToken(SessionUser.id)),
      Bearer(create_token(<<"user", 0>>, 0)) }

PostIds == { d.id : d \in draft_posts } \cup { <<"post", 0, 0>> }

\* The text an edit stores, in the representation of stored contents: the
\* owner rewrites the Practical draft as a Story one.
EditedContent == JStr([placeholder |-> "Story", topic |-> "pricing"])

PostUpdates ==
    { [content |-> EditedContent], [is_favorite |-> TRUE],
      [content |-> EditedContent, is_favorite |-> TRUE] }

\* The request bodies and path parameters of each route.
RouteArgs(route) ==
    CASE route = "generate_posts" -> { [topic |-> "pricing"] }
      [] route = "get_posts" -> { [favorites_only |-> FALSE] }
      [] route = "update_post" ->
            { [post_id |-> i, update |-> u] : i \in PostIds, u \in PostUpdates }
      [] route \in {"delete_post", "regenerate_post"} -> { [post_id |-> i] : i \in PostIds }
      [] route = "analyze_voice" -> { [raw_samples |-> LongSample, settings |-> NoFields] }
      [] route = "update_guardrails" ->
            { [settings |-> [DefaultSettings EXCEPT !.emoji = "none"]] }
      [] OTHER -> { NoFields }

\* The replies generate_posts gets in the session specification.
SessionReplies == { r \in Replies : r.raises \/ Len(r.text) = 5 }

BaseEnv == [FRONTEND_URL |-> Unset, DEV_MODE |-> Unset, EMERGENT_LLM_KEY |-> TRUE]

\* The clock stays at 0 here, far from any token's expiry instant, so only
\* the HTTPBearer status distinguishes the builds.
InitSession ==
    /\ InitIdle
    /\ env \in { lib @@ BaseEnv : lib \in { l \in Libraries : l.jwt_expired_at_exp } }
    /\ budget = MaxRequests
    /\ users = <<SessionUser>>
    /\ voice_profiles \in { <<>>, <<ProfileDoc("vp1", SessionUser.id)>> }
    /\ draft_posts = SessionDraft
    /\ password_resets = <<>>
    /\ demo_rate_limits = <<>>
    /\ rate_limit_store = <<>>
    /\ outbox = {}
    /\ hist = [NoHistory EXCEPT !.persisted = StorePut(<<>>, SessionUser.id, 1)]

RouteSteps ==
    \/ \E p \in Procs : get_current_user_find_one(p)
    \/ \E p \in Procs : get_posts_find(p)
    \/ \E p \in Procs : update_post_find_one(p)
    \/ \E p \in Procs : update_post_update_one(p)
    \/ \E p \in Procs : update_post_find_updated(p)
    \/ \E p \in Procs : delete_post_delete_one(p)
    \/ \E p \in Procs : regenerate_post_find_post(p)
    \/ \E p \in Procs : regenerate_post_find_profile(p)
    \/ \E p \in Procs, reply \in RegenerateReplies : regenerate_post_send_message(p, reply)
    \/ \E p \in Procs : regenerate_post_update_one(p)
    \/ \E p \in Procs : regenerate_post_find_updated(p)

VoiceSteps ==
    \/ \E p \in Procs : get_voice_profile_find_one(p)
    \/ \E p \in Procs : update_guardrails_find_one(p)
    \/ \E p \in Procs : update_guardrails_update_one(p)
    \/ \E p \in Procs : update_guardrails_find_updated(p)
    \/ \E p \in Procs, reply \in AnalysisReplies : analyze_voice_send_message(p, reply)
    \/ \E p \in Procs : analyze_voice_find_existing(p)
    \/ \E p \in Procs : analyze_voice_update_one(p)
    \/ \E p \in Procs : analyze_voice_insert_one(p)

GenerateSteps ==
    \/ \E p \in Procs : generate_find_user(p)
    \/ \E p \in Procs : generate_find_profile(p)
    \/ \E p \in Procs, reply \in SessionReplies : generate_send_message(p, reply)
    \/ \E p \in Procs : generate_insert_one(p)
    \/ \E p \in Procs : generate_increment(p)

NextSession ==
    \/ \E p \in Procs, route \in Routes,
          credentials \in BadCredentials \cup {GoodCredentials} :
           \E args \in RouteArgs(route) : get_current_user(p, route, credentials, args)
    \/ RouteSteps
    \/ VoiceSteps
    \/ GenerateSteps

SpecSession == InitSession /\ [][NextSession]_vars

----------------------------------------------------------------------------
(* Session tokens over a day *)

TokenLifetime == JWT_EXPIRATION_HOURS * SECONDS_PER_HOUR

\* The account holds the token its registration returned at instant 0; no
\* request comes without credentials, so only the exp check distinguishes
\* the builds.
InitToken ==
    /\ InitIdle
    /\ env \in { lib @@ BaseEnv :
                   lib \in { l \in Libraries : l.bearer_missing_status = 401 } }
    /\ budget = MaxRequests
    /\ users = <<SessionUser>>
    /\ voice_profiles = <<>>
    /\ draft_posts = {}
    /\ password_resets = <<>>
    /\ demo_rate_limits = <<>>
    /\ rate_limit_store = <<>>
    /\ outbox = {}
    /\ hist = [NoHistory EXCEPT !.issued = {create_token(SessionUser.id, 0)}]

TickToken == Tick(Instants(TokenLifetime - 1) \cup Instants(TokenLifetime))

NextToken ==
    \/ \E p \in Procs : login(p, EmailFree, "secret1")
    \/ \E p \in Procs : login_find_one(p)
    \/ \E p \in Procs, token \in hist.issued :
           get_current_user(p, "get_me", Bearer(token), NoFields)
    \/ \E p \in Procs : get_current_user_find_one(p)
    \/ TickToken

SpecToken == InitToken /\ [][NextToken]_vars

----------------------------------------------------------------------------
(* Verification of a reset link before the form is shown *)

ValidLink == OkResponse([valid |-> TRUE])
NotValid(message) == OkResponse([valid |-> FALSE, message |-> message])

\* Lines 377-379: the secret is hashed and the lookup is issued.
verify_reset_token(p, token) ==
    /\ Accept(p)
    /\ Suspend(p, "vt_find_one",
               [op |-> "verify_reset_token", serial |-> nreq + 1, token |-> token,
                token_hash |-> hash_reset_token(token),
                found |-> FALSE, expired |-> FALSE])
    /\ UNCHANGED <<now, fixed, users, password_resets, voice_profiles, draft_posts,
                   demo_rate_limits, rate_limit_store, outbox, hist>>

\* Lines 381-393: the answer depends on the record found; nothing is written.
verify_reset_token_find_one(p) ==
    /\ pc[p] = "vt_find_one"
    /\ LET i == FirstMatch(password_resets, UnusedWithHash(req[p].token_hash))
       IN  IF i = 0
           THEN Respond(p, NotValid("Invalid or expired reset link"), req[p])
           ELSE LET seen == [found |-> TRUE, reset_doc |-> password_resets[i],
                             expired |-> IsExpired(now, password_resets[i].expires_at)]
                            @@ req[p]
                IN  IF IsExpired(now, password_resets[i].expires_at)
                    THEN Respond(p, NotValid("Reset link has expired"), seen)
                    ELSE Respond(p, ValidLink, seen)
    /\ UNCHANGED <<now, fixed, users, password_resets, voice_profiles, draft_posts,
                   demo_rate_limits, rate_limit_store, outbox, nreq, hist>>

InitVerify ==
    /\ InitIdle
    /\ env \in Environments
    /\ budget = MaxRequests + 1
    /\ users = <<UserDoc("u1", EmailFree, "secret1")>>
    /\ voice_profiles = <<>>
    /\ draft_posts = {}
    /\ demo_rate_limits = <<>>
    /\ LinkIssued

NextVerify ==
    \/ \E p \in Procs, token \in KnownTokens : verify_reset_token(p, token)
    \/ \E p \in Procs : verify_reset_token_find_one(p)
    \/ \E p \in Procs, token \in KnownTokens : reset_password(p, token, "secret2")
    \/ \E p \in Procs : reset_password_find_one(p)
    \/ \E p \in Procs : reset_password_mark_expired(p)
    \/ \E p \in Procs : reset_password_find_user(p)
    \/ \E p \in Procs : reset_password_update_password(p)
    \/ \E p \in Procs : reset_password_mark_used(p)
    \/ TickReset

SpecVerify == InitVerify /\ [][NextVerify]_vars

----------------------------------------------------------------------------
(* Edits and regenerations of one stored draft *)

DraftRoutes == {"update_post", "regenerate_post"}

\* The owner is signed in and has a voice profile and one stored draft.
InitDrafts ==
    /\ InitIdle
    /\ env \in { lib @@ BaseEnv :
                   lib \in { l \in Libraries : /\ l.jwt_expired_at_exp
                                               /\ l.bearer_missing_status = 401 } }
    /\ budget = MaxRequests
    /\ users = <<SessionUser>>
    /\ voice_profiles = <<ProfileDoc("vp1", SessionUser.id)>>
    /\ draft_posts = SessionDraft
    /\ password_resets = <<>>
    /\ demo_rate_limits = <<>>
    /\ rate_limit_store = <<>>
    /\ outbox = {}
    /\ hist = [NoHistory EXCEPT !.persisted = StorePut(<<>>, SessionUser.id, 1)]

NextDrafts ==
    \/ \E p \in Procs, route \in DraftRoutes :
           \E args \in RouteArgs(route) :
               get_current_user(p, route, GoodCredentials, args)
    \/ \E p \in Procs : get_current_user_find_one(p)
    \/ \E p \in Procs : update_post_find_one(p)
    \/ \E p \in Procs : update_post_update_one(p)
    \/ \E p \in Procs : update_post_find_updated(p)
    \/ \E p \in Procs : regenerate_post_find_post(p)
    \/ \E p \in Procs : regenerate_post_find_profile(p)
    \/ \E p \in Procs, reply \in RegenerateReplies : regenerate_post_send_message(p, reply)
    \/ \E p \in Procs : regenerate_post_update_one(p)
    \/ \E p \in Procs : regenerate_post_find_updated(p)

SpecDrafts == InitDrafts /\ [][NextDrafts]_vars

----------------------------------------------------------------------------
(* Two owners of drafts *)

OtherUser == user_doc(0 - 2, EmailUnknown, "secret2", "Bob", 0)
OtherDraft == { d \in EarlierDrafts(0 - 3, OtherUser.id, "hiring") : d.id[3] = 1 }

OwnerRoutes == {"get_posts", "update_post", "delete_post", "regenerate_post"}

\* Each user has a voice profile and one stored draft; the first user calls.
InitOwner ==
    /\ InitIdle
    /\ env \in { lib @@ BaseEnv :
                   lib \in { l \in Libraries : /\ l.jwt_expired_at_exp
                                               /\ l.bearer_missing_status = 401 } }
    /\ budget = MaxRequests
    /\ users = <<SessionUser, OtherUser>>
    /\ voice_profiles = <<ProfileDoc("vp1", SessionUser.id), ProfileDoc("vp2", OtherUser.id)>>
    /\ draft_posts = SessionDraft \cup OtherDraft
    /\ password_resets = <<>>
    /\ demo_rate_limits = <<>>
    /\ rate_limit_store = <<>>
    /\ outbox = {}
    /\ hist = [NoHistory EXCEPT !.persisted =
                   StorePut(StorePut(<<>>, SessionUser.id, 1), OtherUser.id, 1)]

NextOwner ==
    \/ \E p \in Procs, route \in OwnerRoutes :
           \E args \in RouteArgs(route) :
               get_current_user(p, route, GoodCredentials, args)
    \/ RouteSteps

SpecOwner == InitOwner /\ [][NextOwner]_vars

----------------------------------------------------------------------------
(* Generation before and after the voice profile exists *)

\* The collaborator fails, or answers five posts, an empty array, or an
\* array of plain text.
ProfileReplies ==
    { [raises |-> TRUE, text |-> <<>>],
      Says(<<LBracket, Good(1, "Practical"), Good(2, "Story"), Good(3, "Contrarian"),
             Good(4, "Framework"), Good(5, "Punchy"), RBracket>>),
      Says(<<LBracket, RBracket>>),
      Says(<<LBracket, Value(JStr("just text")), RBracket>>) }

ProfileRoutes == {"generate_posts", "analyze_voice"}

\* A signed-in user who has not analysed a voice yet.
InitProfile ==
    /\ InitIdle
    /\ env \in { lib @@ BaseEnv :
                   lib \in { l \in Libraries : /\ l.jwt_expired_at_exp
                                               /\ l.bearer_missing_status = 401 } }
    /\ budget = MaxRequests + 1
    /\ users = <<SessionUser>>
    /\ voice_profiles = <<>>
    /\ draft_posts = {}
    /\ password_resets = <<>>
    /\ demo_rate_limits = <<>>
    /\ rate_limit_store = <<>>
    /\ outbox = {}
    /\ hist = [NoHistory EXCEPT !.persisted = StorePut(<<>>, SessionUser.id, 0)]

NextProfile ==
    \/ \E p \in Procs, route \in ProfileRoutes :
           \E args \in RouteArgs(route) :
               get_current_user(p, route, GoodCredentials, args)
    \/ \E p \in Procs : get_current_user_find_one(p)
    \/ \E p \in Procs, reply \in AnalysisReplies : analyze_voice_send_message(p, reply)
    \/ \E p \in Procs : analyze_voice_find_existing(p)
    \/ \E p \in Procs : analyze_voice_update_one(p)
    \/ \E p \in Procs : analyze_voice_insert_one(p)
    \/ \E p \in Procs : generate_find_user(p)
    \/ \E p \in Procs : generate_find_profile(p)
    \/ \E p \in Procs, reply \in ProfileReplies : generate_send_message(p, reply)
    \/ \E p \in Procs : generate_insert_one(p)
    \/ \E p \in Procs : generate_increment(p)

SpecProfile == InitProfile /\ [][NextProfile]_vars

----------------------------------------------------------------------------
(* Generation under the event loop's scheduling *)

\* An awaited store call completes and the handler runs on; the await of
\* chat.send_message (line 654) has no timeout around it, and nothing makes
\* the collaborator answer.
StoreStep(p) ==
    \/ generate_current_user(p)
    \/ generate_find_user(p)
    \/ generate_find_profile(p)
    \/ generate_insert_one(p)
    \/ generate_increment(p)

SpecGenLive ==
    InitGen /\ [][NextGen]_vars /\ \A p \in Procs : WF_vars(StoreStep(p))

----------------------------------------------------------------------------
(* Reset requests at the limit of the sliding window *)

\* Three requests for the account came from one address in the first
\* second; the link of the last one is the account's reset record.
LinkIssuedAtLimit ==
    /\ password_resets =
           <<ResetDoc(0, "u1", generate_reset_token(0 - 1).token_hash, 0)>>
    /\ outbox = {[email |-> EmailFree, token |-> generate_reset_token(0 - 1).token]}
    /\ rate_limit_store =
           check_rate_limit_store(
               check_rate_limit_store(
                   check_rate_limit_store(<<>>, rate_limit_key("10.0.0.1", EmailFree), 0),
                   rate_limit_key("10.0.0.1", EmailFree), 0),
               rate_limit_key("10.0.0.1", EmailFree), 0)
    /\ hist = [NoHistory EXCEPT !.allowed_log = rate_limit_store]

InitLimited ==
    /\ InitIdle
    /\ env \in Environments
    /\ budget = MaxRequests
    /\ users = <<UserDoc("u1", EmailFree, "secret1")>>
    /\ voice_profiles = <<>>
    /\ draft_posts = {}
    /\ demo_rate_limits = <<>>
    /\ LinkIssuedAtLimit

NextLimited ==
    \/ \E p \in Procs, email \in ForgotEmails, ip \in IPs : forgot_password(p, email, ip)
    \/ \E p \in Procs : forgot_password_find_user(p)
    \/ \E p \in Procs : forgot_password_delete_many(p)
    \/ \E p \in Procs : forgot_password_insert_one(p)
    \/ \E p \in Procs, token \in KnownTokens : reset_password(p, token, "newpw1")
    \/ \E p \in Procs : reset_password_find_one(p)
    \/ \E p \in Procs : reset_password_find_user(p)
    \/ \E p \in Procs : reset_password_update_password(p)
    \/ \E p \in Procs : reset_password_mark_used(p)
    \/ TickRate

SpecLimited == InitLimited /\ [][NextLimited]_vars

----------------------------------------------------------------------------
(* Reset links that later requests supersede *)

InitSupersede ==
    /\ InitIdle
    /\ env \in Environments
    /\ budget = MaxRequests + 1
    /\ users = <<UserDoc("u1", EmailFree, "secret1")>>
    /\ voice_profiles = <<>>
    /\ draft_posts = {}
    /\ demo_rate_limits = <<>>
    /\ LinkIssued

NextSupersede ==
    \/ \E p \in Procs, ip \in IPs : forgot_password(p, EmailFree, ip)
    \/ \E p \in Procs : forgot_password_find_user(p)
    \/ \E p \in Procs : forgot_password_delete_many(p)
    \/ \E p \in Procs : forgot_password_insert_one(p)
    \/ \E p \in Procs, token \in KnownTokens : reset_password(p, token, "newpw1")
    \/ \E p \in Procs : reset_password_find_one(p)
    \/ \E p \in Procs : reset_password_find_user(p)
    \/ \E p \in Procs : reset_password_update_password(p)
    \/ \E p \in Procs : reset_password_mark_used(p)
    \/ \E p \in Procs, token \in KnownTokens : verify_reset_token(p, token)
    \/ \E p \in Procs : verify_reset_token_find_one(p)

SpecSupersede == InitSupersede /\ [][NextSupersede]_vars

----------------------------------------------------------------------------
(* The usage counter next to the drafts it counts *)

QuotaUser == [SessionUser EXCEPT !.posts_generated = 5]

\* The collaborator may also answer one post followed by plain text.
QuotaReplies ==
    ProfileReplies
        \cup { Says(<<LBracket, Good(1, "Practical"), Value(JStr("just text")), RBracket>>) }

QuotaRoutes ==
    {"generate_posts", "get_posts", "update_post", "delete_post", "regenerate_post"}

\* A free user whose first generation persisted five drafts.
InitQuota ==
    /\ InitIdle
    /\ env \in { lib @@ BaseEnv :
                   lib \in { l \in Libraries : /\ l.jwt_expired_at_exp
                                               /\ l.bearer_missing_status = 401 } }
    /\ budget = MaxRequests
    /\ users = <<QuotaUser>>
    /\ voice_profiles = <<ProfileDoc("vp1", QuotaUser.id)>>
    /\ draft_posts = EarlierDrafts(0 - 2, QuotaUser.id, "pricing")
    /\ password_resets = <<>>
    /\ demo_rate_limits = <<>>
    /\ rate_limit_store = <<>>
    /\ outbox = {}
    /\ hist = [NoHistory EXCEPT !.persisted = StorePut(<<>>, QuotaUser.id, 5)]

NextQuota ==
    \/ \E p \in Procs, route \in QuotaRoutes :
           \E args \in RouteArgs(route) :
               get_current_user(p, route, GoodCredentials, args)
    \/ RouteSteps
    \/ \E p \in Procs : generate_find_user(p)
    \/ \E p \in Procs : generate_find_profile(p)
    \/ \E p \in Procs, reply \in QuotaReplies : generate_send_message(p, reply)
    \/ \E p \in Procs : generate_insert_one(p)
    \/ \E p \in Procs : generate_increment(p)

SpecQuota == InitQuota /\ [][NextQuota]_vars

----------------------------------------------------------------------------
(* Properties of the password-reset flow (checked under SpecReset) *)

IsReset(p) == req[p].op = "reset_password"
IsForgot(p) == req[p].op = "forgot_password"

\* C1: a reset secret is single-use.  A reset_password request that presents,
\* with a password of valid length, a secret some earlier request has already
\* consumed successfully never gets past the lookup: it ends with 400
\* "Invalid or expired reset link" and never writes the user's password.
C1_SecretIsSingleUse ==
    \A p \in Procs :
        (/\ IsReset(p)
         /\ req[p].after_success
         /\ Len(req[p].new_password) >= MIN_PASSWORD_LENGTH)
        => /\ pc[p] \in {"rp_find_one", "idle"}
           /\ pc[p] = "idle" => resp[p] = InvalidLink
           /\ ~req[p].wrote_password

C1_Witness ==
    \E p \in Procs :
        /\ IsReset(p) /\ Done(p)
        /\ req[p].after_success
        /\ Len(req[p].new_password) >= MIN_PASSWORD_LENGTH
        /\ resp[p] = InvalidLink

\* A reset record that is unused and not past its expiry.
Active(doc) == doc.used = FALSE /\ ~(now > doc.expires_at)

\* C2: in every reachable state there is at most one active password_resets
\* record per user.
C2_AtMostOneActiveReset ==
    \A i, j \in DOMAIN password_resets :
        (/\ password_resets[i].user_id = password_resets[j].user_id
         /\ Active(password_resets[i])
         /\ Active(password_resets[j]))
        => i = j

\* C3: forgot_password gives no existence leakage.  Two answered requests that
\* met the same rate-limit verdict (under the one configuration of the run)
\* carry the same fields and the same message, whether or not their email is
\* registered.
C3_NoExistenceLeak ==
    \A p, q \in Procs :
        (/\ IsForgot(p) /\ Done(p)
         /\ IsForgot(q) /\ Done(q)
         /\ req[p].rate_allowed = req[q].rate_allowed)
        => /\ DOMAIN resp[p].body = DOMAIN resp[q].body
           /\ resp[p].body.message = resp[q].body.message

\* The lookup of slot p has just returned a record.
FoundRecord(p) ==
    /\ pc[p] = "rp_find_one"
    /\ pc'[p] \in {"rp_mark_expired", "rp_find_user"}

RecordOf(p) == { i \in DOMAIN password_resets :
                    password_resets[i].id = req[p].reset_doc.id }

\* C4: a reset_password call whose unused record is past its expiry (more than
\* 30 minutes after the record's creation) fails with the "expired" error,
\* leaves the record marked used and does not write the password; a record at
\* its expiry instant or earlier is accepted and the call succeeds.
C4_Step ==
    \A p \in Procs :
        FoundRecord(p) =>
            (req'[p].expired <=>
                now > req'[p].reset_doc.created_at
                        + RESET_EXPIRY_MINUTES * SECONDS_PER_MINUTE)

C4_Outcome ==
    \A p \in Procs :
        (IsReset(p) /\ req[p].found) =>
            /\ pc[p] = "rp_mark_expired" => req[p].expired
            /\ pc[p] \in {"rp_find_user", "rp_update_password", "rp_mark_used"}
                   => ~req[p].expired
            /\ (Done(p) /\ req[p].expired) =>
                   /\ resp[p] = ExpiredLink
                   /\ ~req[p].wrote_password
                   /\ \A i \in RecordOf(p) : password_resets[i].used
            /\ (Done(p) /\ ~req[p].expired) =>
                   /\ resp[p] = ResetDone
                   /\ req[p].wrote_password

C4_ExpiredLinkRejected == [][C4_Step]_vars /\ []C4_Outcome

C4_Witness ==
    \E p \in Procs :
        /\ IsReset(p) /\ Done(p)
        /\ req[p].found /\ req[p].expired
        /\ resp[p] = ExpiredLink
        /\ \E i \in RecordOf(p) : password_resets[i].used

\* The boundary case of C4: a link accepted at its very expiry instant.
C4_BoundaryReached ==
    \E p \in Procs :
        /\ IsReset(p) /\ Done(p) /\ req[p].found
        /\ resp[p] = ResetDone
        /\ now = req[p].reset_doc.expires_at

----------------------------------------------------------------------------
(* Properties of the sliding-window limiter (checked under SpecRate) *)

\* The calls for a key that were allowed less than a window ago.
RecentlyAllowed(identifier) ==
    { i \in DOMAIN StoreGet(hist.allowed_log, identifier) :
        now - StoreGet(hist.allowed_log, identifier)[i] < RATE_LIMIT_WINDOW }

\* C5: check_rate_limit allows a call iff fewer than 3 earlier calls for the
\* same key were allowed within the last 300 seconds (a call allowed exactly
\* 300 seconds ago no longer counts).
C5_SlidingWindow ==
    [][nreq' = nreq + 1 =>
          (hist'.last_call.allowed <=>
              Cardinality(RecentlyAllowed(hist'.last_call.identifier))
                  < RATE_LIMIT_MAX_REQUESTS)]_vars

\* Three calls for a key were allowed, a fourth was refused, and after the
\* window a further call for the same key has just been allowed.
C5_Witness ==
    /\ hist.last_call.allowed
    /\ hist.last_call.identifier \in hist.denied
    /\ Len(StoreGet(hist.allowed_log, hist.last_call.identifier))
           > RATE_LIMIT_MAX_REQUESTS

----------------------------------------------------------------------------
(* Properties of the demo counter (SpecDemoSeq: calls one after the other; *)
(* SpecDemo: calls at any time)                                            *)

\* The daily counter as the specification describes it, replayed over the
\* calls made so far: the window's start and the calls counted in it.
RECURSIVE WindowAfter(_)
WindowAfter(log) ==
    IF log = <<>> THEN [start |-> 0, count |-> 0]
    ELSE LET w == WindowAfter(SubSeq(log, 1, Len(log) - 1))
             c == log[Len(log)]
         IN  IF w.count = 0 \/ c.at - w.start > DEMO_VOICE_LIMIT_WINDOW
             THEN [start |-> c.at, count |-> 1]
             ELSE IF w.count >= DEMO_VOICE_LIMIT_PER_DAY THEN w
             ELSE [w EXCEPT !.count = @ + 1]

\* Whether the last call of the log is to be allowed.
ExpectedAllowed(log) ==
    LET w == WindowAfter(SubSeq(log, 1, Len(log) - 1))
        c == log[Len(log)]
    IN  \/ w.count = 0
        \/ c.at - w.start > DEMO_VOICE_LIMIT_WINDOW
        \/ w.count < DEMO_VOICE_LIMIT_PER_DAY

InLimiter(p) == pc[p] \in {"dv_find_one", "dv_insert_one", "dv_reset", "dv_increment"}

DemoRecords(ip) == Matching(demo_rate_limits, IsVoiceTrain(ip))

\* C6: for sequential calls with the same IP, the first 2 calls within 24
\* hours of the window start are allowed, every further call inside the
\* window gets (False, 0) and leaves the record as it is, and the first call
\* made more than 24 hours after the window start is allowed and resets the
\* count to 1 and the window start to the time of the call.
C6_DailyCounter ==
    \A ip \in IPs :
        LET log == StoreGet(hist.demo_log, ip)
            w == WindowAfter(log)
        IN  /\ \A n \in 1..Len(log) : log[n].allowed = ExpectedAllowed(SubSeq(log, 1, n))
            /\ (\A p \in Procs : ~InLimiter(p)) =>
                   IF w.count = 0 THEN DemoRecords(ip) = {}
                   ELSE /\ Cardinality(DemoRecords(ip)) = 1
                        /\ \A i \in DemoRecords(ip) :
                               /\ demo_rate_limits[i].count = w.count
                               /\ demo_rate_limits[i].first_request = w.start
            /\ \A p \in Procs :
                   (req[p].op = "demo_analyze_voice" /\ req[p].ip = ip /\ Done(p)
                        /\ ~req[p].allowed)
                   => resp[p] = DemoLimitReached /\ req[p].remaining = 0

\* Two calls were allowed, a third was refused inside the window, and a call
\* made more than 24 hours after the window start was allowed again.
C6_Witness ==
    \E ip \in IPs :
        LET log == StoreGet(hist.demo_log, ip)
        IN  /\ Len(log) >= 4
            /\ log[1].allowed /\ log[2].allowed /\ ~log[3].allowed /\ log[4].allowed
            /\ log[4].at - log[1].at > DEMO_VOICE_LIMIT_WINDOW
            /\ \A i \in DemoRecords(ip) :
                   demo_rate_limits[i].count = 1
                   /\ demo_rate_limits[i].first_request = log[4].at

\* C7: under any interleaving of calls for the same IP no update is lost: at
\* most one record exists for the IP, and the calls allowed since the start
\* of its window never number more than 2.
C7_NoLostUpdate ==
    \A ip \in IPs :
        /\ Cardinality(DemoRecords(ip)) <= 1
        /\ \A i \in DemoRecords(ip) :
               Cardinality({ n \in DOMAIN StoreGet(hist.demo_log, ip) :
                               /\ StoreGet(hist.demo_log, ip)[n].allowed
                               /\ StoreGet(hist.demo_log, ip)[n].at
                                      >= demo_rate_limits[i].first_request })
                   <= DEMO_VOICE_LIMIT_PER_DAY

----------------------------------------------------------------------------
(* Properties of the free-usage cap *)

IsGenerate(p) == req[p].op = "generate_posts"

UserOf(user_id) == users[FirstMatch(users, [id |-> user_id])]

FreeUsers == { u \in UserIds : ~(Lower(UserOf(u).email) \in ADMIN_EMAILS) }
PrivilegedUsers == UserIds \ FreeUsers

\* C8: for a user outside the privileged list, the usage counter never
\* exceeds the free limit of 10, and neither does the number of drafts that
\* generate_posts has ever persisted for that user.
C8_CapNeverExceeded ==
    \A u \in FreeUsers :
        /\ UserOf(u).posts_generated <= FREE_POST_LIMIT
        /\ hist.persisted[u] <= FREE_POST_LIMIT

\* C9: a generate_posts request of a free user whose counter was already at
\* 10 or more when the request was made is answered 403 with the limit
\* message; it never reaches the generation collaborator, persists no draft
\* and never reaches the counter update.
C9_RejectedAtLimit ==
    \A p \in Procs :
        (/\ IsGenerate(p)
         /\ req[p].token_user_id \in FreeUsers
         /\ req[p].count_at_call >= FREE_POST_LIMIT)
        => /\ pc[p] \in {"gp_current_user", "gp_find_user", "idle"}
           /\ req[p].llm_calls = 0
           /\ req[p].saved_posts = <<>>
           /\ \A d \in draft_posts : d.id[2] # req[p].serial
           /\ UserOf(req[p].token_user_id).posts_generated >= req[p].count_at_call
           /\ Done(p) => resp[p] = LimitError

C9_Witness ==
    \E p \in Procs :
        /\ IsGenerate(p)
        /\ req[p].token_user_id \in FreeUsers
        /\ req[p].count_at_call = FREE_POST_LIMIT
        /\ Done(p)
        /\ resp[p] = LimitError
        /\ UserOf(req[p].token_user_id).posts_generated = FREE_POST_LIMIT

\* C10: a user whose lower-cased email is on the privileged list is never
\* answered 403 by generate_posts, whatever the number of drafts already
\* generated, and that user's usage counter is never changed.
C10_PrivilegedUnlimited ==
    /\ \A u \in PrivilegedUsers : UserOf(u).posts_generated = 0
    /\ \A p \in Procs :
           (IsGenerate(p) /\ req[p].token_user_id \in PrivilegedUsers)
           => /\ pc[p] \notin {"gp_find_user", "gp_increment"}
              /\ Done(p) => resp[p].status # 403

C10_Witness ==
    \E p \in Procs :
        /\ IsGenerate(p)
        /\ req[p].token_user_id \in PrivilegedUsers
        /\ UserOf(req[p].token_user_id).email # Lower(UserOf(req[p].token_user_id).email)
        /\ Done(p)
        /\ resp[p].status = 200
        /\ Len(resp[p].body.posts) = MAX_SAVED_POSTS
        /\ hist.persisted[req[p].token_user_id] > FREE_POST_LIMIT
        /\ UserOf(req[p].token_user_id).posts_generated = 0
----------------------------------------------------------------------------
(* Properties of the reply handling of generate_posts *)

DraftsOf(serial) == { d \in draft_posts : d.id[2] = serial }

Placeholder(k, topic) == JStr([placeholder |-> Angles[k], topic |-> topic])

\* C11: when the collaborator fails, or its text has no "[" ... "]", or the
\* bracketed text does not decode, the request goes on to persist the five
\* placeholder drafts: draft k carries the single tag Angles[k] and the
\* placeholder content built from the topic, and the finished request
\* returns exactly these 5 drafts with status 200.
C11_FallbackOnUnusableReply ==
    \A p \in Procs :
        (IsGenerate(p) /\ "unusable_reply" \in DOMAIN req[p] /\ req[p].unusable_reply)
        => /\ pc[p] \in {"gp_insert_one", "gp_increment", "idle"}
           /\ \A d \in DraftsOf(req[p].serial) :
                  /\ d.id[3] \in 1..5
                  /\ d.tags = <<JStr(Angles[d.id[3]])>>
                  /\ d.content = Placeholder(d.id[3], req[p].topic)
           /\ Done(p) =>
                  /\ resp[p].status = 200
                  /\ resp[p].body.posts = [k \in 1..5 |-> <<"post", req[p].serial, k>>]
                  /\ { d.id[3] : d \in DraftsOf(req[p].serial) } = 1..5

C11_Witness ==
    \E p \in Procs :
        /\ IsGenerate(p)
        /\ "unusable_reply" \in DOMAIN req[p]
        /\ req[p].unusable_reply
        /\ Done(p)
        /\ resp[p].status = 200
        /\ Cardinality(DraftsOf(req[p].serial)) = 5

\* C12: a generate_posts request that got as far as asking the collaborator
\* (so its user is authenticated, within quota and has a voice profile)
\* ends with a success response, whatever the collaborator replied.
C12_ReplyNeverFailsRequest ==
    \A p \in Procs :
        (IsGenerate(p) /\ Done(p) /\ req[p].llm_calls > 0) => resp[p].status = 200

AngleTags == { JStr(Angles[k]) : k \in DOMAIN Angles }

\* C13: every persisted draft carries exactly one tag, that tag is one of
\* the five angles, and no request has persisted more than 5 drafts.
C13_OneAngleTagAtMostFive ==
    /\ \A d \in draft_posts : Len(d.tags) = 1 /\ d.tags[1] \in AngleTags
    /\ \A p \in Procs :
           IsGenerate(p) => Cardinality(DraftsOf(req[p].serial)) <= MAX_SAVED_POSTS
----------------------------------------------------------------------------
(* Properties of registration and login *)

IsRegister(p) == req[p].op = "register"
IsLogin(p) == req[p].op = "login"

\* C14: a register call made for an email that already has a user record
\* ends with 400 and inserts nothing, and no two user records ever carry
\* the same email.
C14_EmailRegisteredOnce ==
    /\ \A p \in Procs :
           (IsRegister(p) /\ req[p].registered_at_call)
           => /\ pc[p] \in {"rg_find_one", "idle"}
              /\ Done(p) => resp[p] = EmailTaken
              /\ \A i \in DOMAIN users : users[i].id # <<"user", req[p].serial>>
    /\ \A i, j \in DOMAIN users : users[i].email = users[j].email => i = j

\* C15: emails that differ only in letter case name the same user: no two
\* user records have emails equal up to case, and a login whose email
\* equals a stored one up to case, with that user's password, succeeds.
C15_CaseInsensitiveLookup ==
    /\ \A i, j \in DOMAIN users :
           Lower(users[i].email) = Lower(users[j].email) => i = j
    /\ \A p \in Procs :
           (/\ IsLogin(p)
            /\ Done(p)
            /\ \E i \in DOMAIN req[p].users_read :
                   /\ Lower(req[p].users_read[i].email) = Lower(req[p].email)
                   /\ verify_password(req[p].password, req[p].users_read[i].password))
           => resp[p].status = 200

\* The password most recently set, by registration or by a reset, for the
\* account that the collection `read` holds for this email.
LatestPassword(read, set, email) ==
    set[read[FirstMatch(read, [email |-> email])].id]

\* C16: a finished login answers 200 with a token for the user exactly when
\* the email had an account and the presented password was the one most
\* recently set for it; otherwise it answers 401 'Invalid credentials', the
\* same response for an unknown email and for a wrong password.
C16_LoginChecksLatestPassword ==
    \A p \in Procs :
        (IsLogin(p) /\ Done(p))
        => IF /\ Matching(req[p].users_read, [email |-> req[p].email]) # {}
              /\ req[p].password =
                     LatestPassword(req[p].users_read, req[p].password_set_read,
                                    req[p].email)
           THEN /\ resp[p].status = 200
                /\ resp[p].body.user.email = req[p].email
                /\ resp[p].body.access_token.user_id = resp[p].body.user.id
           ELSE resp[p] = InvalidCredentials

C16_Witness ==
    \E p, q \in Procs :
        /\ IsLogin(p) /\ Done(p) /\ IsReset(q) /\ Done(q)
        /\ resp[q] = ResetDone
        /\ req[q].serial < req[p].serial
        /\ req[p].email = EmailFree
        /\ req[p].password = "newpw1"
        /\ req[q].new_password = "newpw2"
        /\ resp[p] = InvalidCredentials
----------------------------------------------------------------------------
(* Properties of bearer authentication *)

IsRouteRequest(r) == r.op \in Routes /\ "credentials" \in DOMAIN r

\* The request carries no token, or one that is badly signed, lacks user_id,
\* has expired, or names a user that does not exist.
Defective(r) ==
    \/ r.credentials = Missing
    \/ r.credentials.token.key # JWT_SECRET
    \/ "user_id" \notin DOMAIN r.credentials.token
    \/ r.credentials.token.exp < r.called_at
    \/ ~r.known_user_at_call

Stores ==
    <<users, password_resets, voice_profiles, draft_posts, demo_rate_limits,
      rate_limit_store>>

\* What a step of a defective request to a protected route may do: change
\* no store, go nowhere but to the user lookup, and end with the given status.
DefectiveStep(statuses) ==
    \A p \in Procs :
        (/\ <<pc[p], req[p], resp[p]>> # <<pc'[p], req'[p], resp'[p]>>
         /\ IsRouteRequest(req'[p])
         /\ Defective(req'[p]))
        => /\ UNCHANGED Stores
           /\ pc'[p] \in {"auth_find_one", "idle"}
           /\ pc'[p] = "idle" => resp'[p].status \in statuses

\* C17: every step of a request to a protected route whose token is missing,
\* badly signed, without user_id, expired or for a user that does not exist
\* leaves every store unchanged, and the request ends with status 401.
C17_Uniform401 == [][DefectiveStep({401})]_vars

\* A get_me request presenting a token that create_token issued.
PresentsIssued(p) ==
    /\ req[p].op = "get_me"
    /\ "credentials" \in DOMAIN req[p]
    /\ req[p].credentials # Missing
    /\ req[p].credentials.token \in hist.issued

Accepted(p) ==
    /\ pc[p] \in {"auth_find_one", "idle"}
    /\ Done(p) => /\ resp[p].status = 200
                  /\ resp[p].body.id = req[p].credentials.token.user_id

Rejected(p) == Done(p) /\ resp[p] = TokenExpired

----------------------------------------------------------------------------
(* Properties of reset-link verification *)

\* A step of the verify_reset_token request in slot p.
VerifyStep(p) ==
    /\ <<pc[p], req[p], resp[p]>> # <<pc'[p], req'[p], resp'[p]>>
    /\ req'[p].op = "verify_reset_token"

\* The step in which the request finds an unused record past its expiry.
FindsExpired(p) ==
    /\ VerifyStep(p)
    /\ pc[p] = "vt_find_one"
    /\ req'[p].found /\ req'[p].expired

\* C19: verify_reset_token changes no stored state, except that on finding
\* an unused record past its expiry it reports valid = False and marks that
\* record used.
C19_VerifyMarksOnlyExpired ==
    [][\A p \in Procs :
          /\ (VerifyStep(p) /\ ~FindsExpired(p)) => UNCHANGED Stores
          /\ FindsExpired(p)
             => /\ resp'[p].status = 200 /\ ~resp'[p].body.valid
                /\ password_resets' =
                       update_one(password_resets, [id |-> req'[p].reset_doc.id],
                                  MarkUsed, NoFields)
                /\ UNCHANGED <<users, voice_profiles, draft_posts,
                               demo_rate_limits, rate_limit_store>>]_vars

----------------------------------------------------------------------------
(* Properties of regeneration *)

\* The stored content of the draft with this id (empty when there is none).
ContentOf(posts, post_id) == { d.content : d \in { e \in posts : e.id = post_id } }

\* A step of a regenerate_post request whose collaborator call failed.
FailedRegenerateStep(p) ==
    /\ <<pc[p], req[p], resp[p]>> # <<pc'[p], req'[p], resp'[p]>>
    /\ req[p].op = "regenerate_post"
    /\ pc[p] \in {"rn_update_one", "rn_find_updated"}
    /\ req[p].failed

\* C20: when the collaborator call of regenerate_post fails, no step of that
\* request changes the stored content of the post, also when an update_post
\* edit of the post completed while the call was pending.
C20_FailedRegenerateKeepsContent ==
    [][\A p \in Procs :
          FailedRegenerateStep(p)
          => ContentOf(draft_posts', req[p].args.post_id)
                 = ContentOf(draft_posts, req[p].args.post_id)]_vars

----------------------------------------------------------------------------
(* Properties of draft ownership *)

CallerOf(r) == r.credentials.token.user_id

\* The request names a stored draft that another user owns.
ForeignTarget(r) ==
    /\ r.op \in {"update_post", "delete_post", "regenerate_post"}
    /\ \E d \in draft_posts : d.id = r.args.post_id /\ d.user_id # CallerOf(r)

\* C21: get_posts returns only the caller's drafts, and update_post,
\* delete_post and regenerate_post on another user's draft answer 404 and
\* leave every draft as it was.
C21_OwnerScoped ==
    [][\A p \in Procs :
          <<pc[p], req[p], resp[p]>> # <<pc'[p], req'[p], resp'[p]>>
          => /\ (req'[p].op = "get_posts" /\ pc'[p] = "idle" /\ resp'[p].status = 200)
                => \A d \in resp'[p].body.posts : d.user_id = CallerOf(req'[p])
             /\ ForeignTarget(req'[p])
                => /\ UNCHANGED draft_posts
                   /\ pc'[p] \in {"auth_find_one", "up_find_one", "dp_delete_one",
                                  "rn_find_post", "idle"}
                   /\ pc'[p] = "idle" => resp'[p] = PostNotFound]_vars

C21_Witness ==
    \E p, q \in Procs :
        /\ Done(p) /\ ForeignTarget(req[p]) /\ resp[p] = PostNotFound
        /\ Done(q) /\ req[q].op = "get_posts" /\ resp[q].status = 200
        /\ resp[q].body.posts # {}

----------------------------------------------------------------------------
(* Properties of generation without a voice profile *)

HasProfile(user_id) == FirstMatch(voice_profiles, [user_id |-> user_id]) # 0

NoProfile == ErrorResponse(400, "Please create a voice profile first")

\* The drafts a request has inserted.
InsertedBy(posts, serial) == { d \in posts : d.id[1] = "post" /\ d.id[2] = serial }

\* C22: generate_posts by a user without a voice profile fails with 400,
\* creates no draft, does not call the collaborator and leaves
\* posts_generated as it was; once the user has a profile the request
\* persists drafts.
C22_ProfileRequired ==
    [][\A p \in Procs :
          (/\ <<pc[p], req[p], resp[p]>> # <<pc'[p], req'[p], resp'[p]>>
           /\ req'[p].op = "generate_posts")
          => /\ (pc[p] = "gp_find_profile" /\ ~HasProfile(req[p].user.id))
                => /\ pc'[p] = "idle" /\ resp'[p] = NoProfile
                   /\ req'[p].llm_calls = 0
                   /\ UNCHANGED Stores
             /\ pc[p] \in {"idle", "auth_find_one", "gp_find_user"} => UNCHANGED Stores
             /\ (pc[p] = "gp_find_profile" /\ HasProfile(req[p].user.id))
                => req'[p].llm_calls = 1
             /\ (pc'[p] = "idle" /\ req'[p].llm_calls = 1)
                => InsertedBy(draft_posts', req'[p].serial) # {}]_vars

----------------------------------------------------------------------------
(* Properties of the wait on the collaborator *)

\* C23: every generate_posts request eventually returns a response, also
\* when the collaborator never replies.
C23_EventuallyResponds ==
    \A p \in Procs : (pc[p] = "gp_send_message") ~> (pc[p] = "idle")

----------------------------------------------------------------------------
(* Properties of overlapping resets *)

PasswordOf(user_id) ==
    { users[i].password : i \in Matching(users, [id |-> user_id]) }

\* C24: of two reset_password requests that present the same secret, at most
\* one succeeds, and the stored password ends as the one the successful
\* request set.
C24_OneResetPerSecret ==
    \A p, q \in Procs :
        (/\ p # q
         /\ IsReset(p) /\ IsReset(q)
         /\ req[p].token = req[q].token
         /\ Done(p) /\ Done(q)
         /\ resp[p] = ResetDone)
        => /\ resp[q] # ResetDone
           /\ PasswordOf(req[p].user_id) = {req[p].new_password_hash}

----------------------------------------------------------------------------
(* Properties of the voice profile store *)

ProfilesOf(profiles, user_id) ==
    { profiles[i] : i \in Matching(profiles, [user_id |-> user_id]) }

\* C25: whatever analyze_voice requests a user makes and however they
\* interleave, voice_profiles holds at most one record for the user, and a
\* re-analysis keeps the id and created_at of the record it found.
C25_OneProfilePerUser ==
    [][\A u \in { users[i].id : i \in DOMAIN users } :
          /\ Cardinality(ProfilesOf(voice_profiles', u)) <= 1
          /\ \A d \in ProfilesOf(voice_profiles, u) :
                 \E e \in ProfilesOf(voice_profiles', u) :
                     e.id = d.id /\ e.created_at = d.created_at]_vars

----------------------------------------------------------------------------
(* Properties of a rate-limited reset request *)

Range(entries) == { entries[i] : i \in DOMAIN entries }

\* Slot p takes a forgot_password request that the limiter rejects.
RejectedForgot(p) ==
    /\ pc[p] = "idle"
    /\ req'[p] # req[p]
    /\ req'[p].op = "forgot_password"
    /\ ~req'[p].rate_allowed

\* C26: a forgot_password request the limiter rejects answers with the
\* generic message of an accepted one, creates and deletes no reset record
\* and records no timestamp in the limiter.
C26_RejectedRequestIsInert ==
    [][\A p \in Procs :
          /\ (req'[p].op = "forgot_password" /\ pc[p] # "idle" /\ pc'[p] = "idle")
             => (resp'[p].status = 200 /\ resp'[p].body.message = GenericMessage)
          /\ RejectedForgot(p)
             => /\ pc'[p] = "idle"
                /\ resp'[p] = OkResponse([message |-> GenericMessage])
                /\ UNCHANGED <<password_resets, users, outbox>>
                /\ \A k \in DOMAIN rate_limit_store' :
                       /\ Range(rate_limit_store'[k]) \subseteq Range(StoreGet(rate_limit_store, k))
                       /\ Len(rate_limit_store'[k]) <= Len(StoreGet(rate_limit_store, k))]_vars

\* A rejected request has been answered and the link mailed before it is
\* still an active record.
C26_Witness ==
    \E p \in Procs :
        /\ IsForgot(p) /\ Done(p) /\ ~req[p].rate_allowed
        /\ \E i \in DOMAIN password_resets, m \in outbox :
               /\ Active(password_resets[i])
               /\ password_resets[i].token_hash = hash_reset_token(m.token)

----------------------------------------------------------------------------
(* Properties of superseded reset links *)

\* The secret was mailed, and a request made later for the same account has
\* completed and mailed a newer one.
Superseded(token) ==
    \E m, n \in outbox :
        /\ m.token = token
        /\ n.email = m.email
        /\ n.token.secret > m.token.secret

\* C27: once a later forgot_password request for the account has completed,
\* a secret an earlier request issued is rejected by reset_password with 400
\* 'Invalid or expired reset link' and reported invalid by
\* verify_reset_token.
C27_SupersededSecretRejected ==
    [][\A p \in Procs :
          /\ (pc[p] = "rp_find_one" /\ pc'[p] # pc[p] /\ Superseded(req[p].token))
             => (pc'[p] = "idle" /\ resp'[p] = InvalidLink)
          /\ (pc[p] = "vt_find_one" /\ pc'[p] # pc[p] /\ Superseded(req[p].token))
             => (pc'[p] = "idle" /\ ~resp'[p].body.valid)]_vars

----------------------------------------------------------------------------
(* Properties of an edit *)

DraftFields ==
    {"id", "user_id", "topic", "audience", "content", "tags", "is_favorite",
     "created_at", "updated_at"}

\* The fields an update_post request may write.
Writable(r) == DOMAIN r.args.update \cup {"updated_at"}

\* C28: update_post changes only the fields its request carries, and
\* updated_at: content stays when only is_favorite is sent, is_favorite stays
\* when only content is sent, and topic, audience, tags, user_id and
\* created_at never change.
C28_EditWritesOnlySentFields ==
    [][\A p \in Procs :
          (/\ <<pc[p], req[p], resp[p]>> # <<pc'[p], req'[p], resp'[p]>>
           /\ req'[p].op = "update_post")
          => /\ pc[p] # "up_update_one" => UNCHANGED draft_posts
             /\ { d.id : d \in draft_posts' } = { d.id : d \in draft_posts }
             /\ \A d \in draft_posts, e \in draft_posts' :
                    d.id = e.id
                    => /\ \A f \in DraftFields \ Writable(req'[p]) : e[f] = d[f]
                       /\ d.id # req'[p].args.post_id
                              => \A f \in DraftFields : e[f] = d[f]
                       /\ (pc[p] = "up_update_one" /\ d.id = req'[p].args.post_id)
                              => \A f \in DOMAIN req'[p].args.update :
                                     e[f] = req'[p].args.update[f]]_vars

C28_Witness ==
    \E p \in Procs :
        /\ Done(p) /\ req[p].op = "update_post"
        /\ DOMAIN req[p].args.update = {"is_favorite"}
        /\ resp[p].status = 200 /\ resp[p].body.is_favorite
        /\ \E d \in SessionDraft : resp[p].body.content = d.content

----------------------------------------------------------------------------
(* Properties of the usage counter *)

GenerateInFlight == \E p \in Procs : req[p].op = "generate_posts" /\ pc[p] # "idle"

\* C29: while no generate_posts request is in flight, posts_generated of a
\* non-privileged user equals the number of drafts generate_posts has ever
\* persisted for the user; update_post, delete_post and regenerate_post
\* never change it.
C29_CounterCountsPersisted ==
    [][/\ ~GenerateInFlight'
          => \A i \in DOMAIN users' :
                 ~is_admin_user(users'[i].email)
                 => users'[i].posts_generated = hist'.persisted[users'[i].id]
       /\ \A p \in Procs :
              (/\ <<pc[p], req[p], resp[p]>> # <<pc'[p], req'[p], resp'[p]>>
               /\ req'[p].op \in {"update_post", "delete_post", "regenerate_post"})
              => UNCHANGED users]_vars

----------------------------------------------------------------------------
(* Properties of the demo quota and the handler's own checks *)

RejectedAfterLimit(call) == call.allowed /\ call.status \in {400, 500}

\* The calls of the log that the limiter let through since first_request.
CountedSince(log, first_request) ==
    { n \in DOMAIN log : log[n].allowed /\ log[n].at >= first_request }

\* C30: demo_analyze_voice consumes the daily quota before it validates the
\* request: a call the limiter lets through is counted in the IP's record
\* also when it is then answered 400 (sample shorter than 100 characters) or
\* 500 (no LLM key), and once two such rejected calls have used up a window,
\* a further call within 24 hours of the first of them is answered 429.
C30_QuotaBeforeValidation ==
    \A ip \in IPs :
        LET log == StoreGet(hist.demo_log, ip)
        IN  /\ \A n \in DOMAIN log :
                   /\ log[n].status = 500 <=> (log[n].allowed /\ ~env.EMERGENT_LLM_KEY)
                   /\ log[n].status = 429 <=> ~log[n].allowed
            /\ (\A p \in Procs : ~InLimiter(p)) =>
                   \A i \in DemoRecords(ip) :
                       /\ demo_rate_limits[i].count =
                              Cardinality(CountedSince(log, demo_rate_limits[i].first_request))
                       /\ \E n \in DOMAIN log :
                              log[n].allowed /\ log[n].at = demo_rate_limits[i].first_request
            /\ \A n1, n2, n3 \in DOMAIN log :
                   (/\ n1 < n2 /\ n2 < n3
                    /\ RejectedAfterLimit(log[n1]) /\ RejectedAfterLimit(log[n2])
                    /\ WindowAfter(SubSeq(log, 1, n1)) = [start |-> log[n1].at, count |-> 1]
                    /\ log[n3].at - log[n1].at <= DEMO_VOICE_LIMIT_WINDOW)
                   => ~log[n3].allowed /\ log[n3].status = 429

\* Two calls were let through and then rejected, one for its short sample,
\* and a third call inside the same window was answered 429; the record
\* counts both rejected calls.
C30_Witness ==
    \E ip \in IPs :
        LET log == StoreGet(hist.demo_log, ip)
        IN  /\ Len(log) >= 3
            /\ log[1].status = 400 /\ log[2].status = 400 /\ log[3].status = 429
            /\ log[3].at - log[1].at <= DEMO_VOICE_LIMIT_WINDOW
            /\ \E p \in Procs : Done(p) /\ resp[p] = DemoLimitReached
            /\ \A i \in DemoRecords(ip) : demo_rate_limits[i].count = 2

============================================================================
